---- MODULE Spec2Model ----
(***************************************************************************)
(* State-machine model of the chat monitor's four deadline-driven parts:   *)
(*   - the spam filter (MessageChecker) and the handling of its results,   *)
(*   - the grace-period ban machinery (BanEvent, TwitchBot.ban_events),    *)
(*   - the break vote (Voter),                                             *)
(*   - the gamble routine (GambleParser).                                  *)
(* Every coroutine is cut at its await points: one action is the code that *)
(* runs between two awaits, which asyncio executes without interleaving.   *)
(* Time is discrete; a timer carries the time remaining until it is due.   *)
(***************************************************************************)
EXTENDS Integers, Sequences, FiniteSets, TLC

VARIABLES
    \* ---- TwitchBot / BanEvent
    ban_events,     \* TwitchBot.ban_events: display name -> BanEvent (0: no entry)
    events,         \* every BanEvent object created so far, by creation order
    hcr_outcome,    \* how the last handle_check_result call went
    fp_calls,       \* the ?fp command in flight for a name, if any
    fp_outcome,     \* how the last ?fp command for a name went
    cancel_result,  \* the last BanEvent.cancel() called on an event directly
    \* ---- Voter
    voters, vote_open, vote_end, vote_end_orphans, vote_timeout_timer,
    vote_timeout_orphans, add_vote_calls, vote_hist,
    \* ---- GambleParser
    gambles_remaining, result_q, gamble_pc, winnings, bet, gamble_hist,
    \* ---- MessageChecker
    checker, checks, check_hist

banVars    == <<ban_events, events, hcr_outcome, fp_calls, fp_outcome>>
eventVars  == <<cancel_result>>
voteVars   == <<voters, vote_open, vote_end, vote_end_orphans, vote_timeout_timer,
                vote_timeout_orphans, add_vote_calls, vote_hist>>
gambleVars == <<gambles_remaining, result_q, gamble_pc, winnings, bet, gamble_hist>>
filterVars == <<checker, checks, check_hist>>
vars       == <<banVars, eventVars, voteVars, gambleVars, filterVars>>

Min(a, b) == IF a <= b THEN a ELSE b

(***************************************************************************)
(* Bounds of the model                                                     *)
(***************************************************************************)
MaxEvents == 2          \* BanEvent objects created in one run
Subjects  == {"alice", "bob"}   \* author display names

(***************************************************************************)
(* CheckResult, as handed to handle_check_result                           *)
(***************************************************************************)
ResultTypes   == {"MATCH", "NO_MATCH", "IGNORED", "ERROR"}
IgnoreReasons == {"FRIENDLY_BOT", "CHANNEL_STAFF", "VIP", "SUBSCRIBER", "FOLLOWER"}
NoReason      == "None"

\* constants.MINUTES_BEFORE_BAN; one unit of time is a minute in the ban machinery
MINUTES_BEFORE_BAN == 2

\* The near-miss log threshold of handle_check_result
NearMissScore == 2

(***************************************************************************)
(* BanEvent                                                                *)
(*   ban_timer  : "none" (None), "armed", "fired", "cancelled"             *)
(*   ban_method : the ban_chatter coroutine object                         *)
(*       "created"   not started                                           *)
(*       "scheduled" wrapped in a task by the timer callback, not yet run  *)
(*       "fetch"     suspended in the user lookups, no ban call made yet   *)
(*       "ban_wait"  ban_user called, awaiting its answer                  *)
(*       "done"      returned        "failed"  ended by an exception       *)
(*       "closed"    closed by cancel() before it returned                 *)
(***************************************************************************)
NewBanEvent(name, stored) ==
    [subject |-> name, ban_timer |-> "none", remaining |-> 0,
     ban_method |-> "created", handler |-> "timeout_wait",
     stored |-> stored,            \* add_ban_event put it into ban_events
     timeout_ok |-> FALSE,         \* the interim timeout was applied
     cancel_ok |-> FALSE,          \* cancel() returned without CancelError
     cancel_armed |-> FALSE,       \* ... while the timer was armed and not fired
     ban_calls |-> 0,              \* ban_user calls issued by ban_method
     ban_result |-> "none",        \* answer to the ban call
     armed_for |-> 0,              \* time the timer has been armed for
     pardoned |-> "no"]            \* the event existed when ?fp canceled for its
                                   \* subject ("cancelled"), and that ?fp has
                                   \* reported success ("reported")

\* BanEvent.start: arm the timer for MINUTES_BEFORE_BAN
StartedEvent(ev) ==
    [ev EXCEPT !.ban_timer = "armed", !.remaining = MINUTES_BEFORE_BAN]

\* A cancel() that raises only while the timer was never armed
CancelRaises_NotStartedOnly(ev) == ev.ban_timer = "none"

\* BanEvent.cancel raises CancelError: timer not started / already canceled
CancelRaises(ev) == ev.ban_timer = "none" \/ ev.ban_timer = "cancelled"

\* coroutine.close(): a coroutine that has not returned is closed where it
\* stands; closing a finished one does nothing
ClosedCoroutine(c) ==
    IF c \in {"created", "scheduled", "fetch", "ban_wait"} THEN "closed" ELSE c

\* A cancel() that records the request and leaves coroutine and timer alone
CancelledEvent_TimerLeftArmed(ev) ==
    [ev EXCEPT !.cancel_ok = TRUE,
               !.cancel_armed = (ev.ban_timer = "armed")]

\* BanEvent.cancel, the branch that does not raise: close ban_method, cancel the timer
CancelledEvent(ev) ==
    [ev EXCEPT !.ban_method = ClosedCoroutine(ev.ban_method),
               !.ban_timer = "cancelled",
               !.cancel_ok = TRUE,
               !.cancel_armed = (ev.ban_timer = "armed")]

FpIdle == [pc |-> "idle", unban_called |-> FALSE]

\* For stating the properties: the events of a subject are marked when ?fp
\* cancels for it, and again when that ?fp sends its success message
Pardoned(evs, name, from, to) ==
    [e \in 1..Len(evs) |->
        IF evs[e].subject = name /\ evs[e].pardoned = from
        THEN [evs[e] EXCEPT !.pardoned = to] ELSE evs[e]]

\* No cancel() called directly yet.  n counts the calls, event is the object
\* of the last one and outcome how it ended ("returned" or "CancelError").
NoCancel == [n |-> 0, event |-> 0, outcome |-> "none"]

BanInit ==
    /\ ban_events = [s \in Subjects |-> 0]
    /\ events = <<>>
    /\ hcr_outcome = "none"
    /\ fp_calls = [s \in Subjects |-> FpIdle]
    /\ fp_outcome = [s \in Subjects |-> "none"]
    /\ cancel_result = NoCancel

\* The CheckResult objects handle_check_result is called with.  ignore_reason is
\* set exactly for IGNORED, as check_message leaves it.  CheckResult.__init__
\* sets no attribute `multipliers`; has_multipliers tells whether the object
\* handed in carries one (the results check_message builds do not).
ScoreSamples == {0, NearMissScore}
CheckResults ==
    {cr \in [subject : Subjects, result_type : ResultTypes,
             ignore_reason : IgnoreReasons \cup {NoReason},
             message_score : ScoreSamples, has_multipliers : BOOLEAN] :
        /\ (cr.result_type = "IGNORED") <=> (cr.ignore_reason # NoReason)
        /\ (cr.result_type = "ERROR") => (cr.message_score = 0)
        /\ (cr.result_type \in {"MATCH", "IGNORED"}) => (cr.message_score = NearMissScore)}

\* TwitchBot.add_ban_event: store the event unless the name already has one
AddBanEvent(registry, name, id) ==
    IF registry[name] # 0 THEN registry ELSE [registry EXCEPT ![name] = id]

\* TwitchBot.remove_ban_event, and the pop in ban_chatter: a missing name is
\* logged (KeyError caught), the registry stays as it is
RemoveBanEvent(registry, name) == [registry EXCEPT ![name] = 0]

\* handle_check_result, MATCH branch up to the first await (in timeout_chatter):
\* the log line reads check_result.multipliers, then the BanEvent is built and
\* handed to add_ban_event, and timeout_chatter starts its lookups.
HandleMatch(cr) ==
    /\ cr.result_type = "MATCH"
    /\ IF ~cr.has_multipliers
       THEN /\ hcr_outcome' = "AttributeError"
            /\ UNCHANGED <<ban_events, events>>
       ELSE /\ Len(events) < MaxEvents
            /\ events' = Append(events,
                                NewBanEvent(cr.subject, ban_events[cr.subject] = 0))
            /\ ban_events' = AddBanEvent(ban_events, cr.subject, Len(events) + 1)
            /\ hcr_outcome' = "ban_event_created"
    /\ UNCHANGED <<fp_calls, fp_outcome>>

\* A handle_check_result that also opens a ban event for an IGNORED result
\* that is not a friendly bot's
HandleOther_BansIgnored(cr) ==
    /\ cr.result_type # "MATCH"
    /\ IF cr.result_type = "IGNORED" /\ cr.ignore_reason # "FRIENDLY_BOT"
          /\ Len(events) < MaxEvents
       THEN /\ events' = Append(events,
                                NewBanEvent(cr.subject, ban_events[cr.subject] = 0))
            /\ ban_events' = AddBanEvent(ban_events, cr.subject, Len(events) + 1)
            /\ hcr_outcome' = "pass_message"
       ELSE /\ hcr_outcome' = "nothing"
            /\ UNCHANGED <<ban_events, events>>
    /\ UNCHANGED <<fp_calls, fp_outcome>>

\* handle_check_result, the other branches: a pass message for an IGNORED result
\* that is not a friendly bot's, a log line for a near miss, nothing otherwise
HandleOther(cr) ==
    /\ cr.result_type # "MATCH"
    /\ hcr_outcome' =
          IF cr.result_type = "IGNORED"
          THEN IF cr.ignore_reason = "FRIENDLY_BOT" THEN "nothing"
               ELSE IF cr.has_multipliers THEN "pass_message" ELSE "AttributeError"
          ELSE IF cr.result_type = "NO_MATCH" /\ cr.message_score >= NearMissScore
               THEN IF cr.has_multipliers THEN "near_miss_logged" ELSE "AttributeError"
               ELSE "nothing"
    /\ UNCHANGED <<ban_events, events, fp_calls, fp_outcome>>

HandleCheckResult(cr) == HandleMatch(cr) \/ HandleOther(cr)

\* handle_check_result resumes when timeout_chatter returns: start() arms the
\* timer.  A failed timeout_user call raises out of the handler before start().
TimeoutReturn(e, ok) ==
    /\ e \in 1..Len(events)
    /\ events[e].handler = "timeout_wait"
    /\ events' = [events EXCEPT ![e] =
          IF ok THEN [StartedEvent(@) EXCEPT !.handler = "done", !.timeout_ok = TRUE]
                ELSE [@ EXCEPT !.handler = "raised"]]
    /\ UNCHANGED <<ban_events, hcr_outcome, fp_calls, fp_outcome>>

\* The loop runs a due timer: asyncio.create_task(self.ban_method)
TimerFire(e) ==
    /\ e \in 1..Len(events)
    /\ events[e].ban_timer = "armed"
    /\ events[e].remaining = 0
    /\ events' = [events EXCEPT ![e].ban_timer = "fired",
                                ![e].ban_method = "scheduled"]
    /\ UNCHANGED <<ban_events, hcr_outcome, fp_calls, fp_outcome>>

\* ban_chatter, first step of the task: up to the await of the user lookups
BanTaskStart(e) ==
    /\ e \in 1..Len(events)
    /\ events[e].ban_method = "scheduled"
    /\ events' = [events EXCEPT ![e].ban_method = "fetch"]
    /\ UNCHANGED <<ban_events, hcr_outcome, fp_calls, fp_outcome>>

\* ban_chatter: the lookups return (or raise, outside the try) and ban_user is called
BanCall(e, ok) ==
    /\ e \in 1..Len(events)
    /\ events[e].ban_method = "fetch"
    /\ events' = [events EXCEPT ![e] =
          IF ok THEN [@ EXCEPT !.ban_method = "ban_wait", !.ban_calls = @ + 1]
                ELSE [@ EXCEPT !.ban_method = "failed"]]
    /\ UNCHANGED <<ban_events, hcr_outcome, fp_calls, fp_outcome>>

BanAnswers == {"ok", "already_banned", "error"}

\* A ban_chatter that starts over after a ban call that failed
BanReturn_RetryOnError(e, answer) ==
    /\ e \in 1..Len(events)
    /\ events[e].ban_method = "ban_wait"
    /\ events' = [events EXCEPT ![e].ban_method = IF answer = "error" THEN "scheduled"
                                                                      ELSE "done",
                                ![e].ban_result = answer]
    /\ ban_events' = IF answer = "ok" THEN RemoveBanEvent(ban_events, events[e].subject)
                                      ELSE ban_events
    /\ UNCHANGED <<hcr_outcome, fp_calls, fp_outcome>>

\* ban_chatter: ban_user returns; only then is the name popped from ban_events.
\* An HTTPException (already banned, or anything else) skips the pop.
BanReturn(e, answer) ==
    /\ e \in 1..Len(events)
    /\ events[e].ban_method = "ban_wait"
    /\ events' = [events EXCEPT ![e].ban_method = "done", ![e].ban_result = answer]
    /\ ban_events' = IF answer = "ok" THEN RemoveBanEvent(ban_events, events[e].subject)
                                      ELSE ban_events
    /\ UNCHANGED <<hcr_outcome, fp_calls, fp_outcome>>

\* ?fp name, up to its first await: look the name up, cancel() its event, remove
\* it, and enter unban_chatter.  KeyError and CancelError end the command.
Fp(name) ==
    /\ fp_calls[name].pc = "idle"
    /\ IF ban_events[name] = 0
       THEN /\ fp_outcome' = [fp_outcome EXCEPT ![name] = "KeyError"]
            /\ UNCHANGED <<ban_events, events, fp_calls>>
       ELSE IF CancelRaises(events[ban_events[name]])
       THEN /\ fp_outcome' = [fp_outcome EXCEPT ![name] = "CancelError"]
            /\ UNCHANGED <<ban_events, events, fp_calls>>
       ELSE /\ events' = Pardoned([events EXCEPT ![ban_events[name]] = CancelledEvent(@)],
                                    name, "no", "cancelled")
            /\ ban_events' = RemoveBanEvent(ban_events, name)
            /\ fp_calls' = [fp_calls EXCEPT ![name] = [pc |-> "lookup", unban_called |-> FALSE]]
            /\ fp_outcome' = [fp_outcome EXCEPT ![name] = "pending"]
    /\ UNCHANGED hcr_outcome

\* unban_chatter after channel.user(): get_chatter(name) may find nobody, and
\* then it returns without an unban call; otherwise unban_user is called
FpLookup(name, found) ==
    /\ fp_calls[name].pc = "lookup"
    /\ IF found
       THEN /\ fp_calls' = [fp_calls EXCEPT ![name] = [pc |-> "unban_wait", unban_called |-> TRUE]]
            /\ UNCHANGED fp_outcome
       ELSE /\ fp_calls' = [fp_calls EXCEPT ![name] = FpIdle]
            /\ fp_outcome' = [fp_outcome EXCEPT ![name] = "success_no_unban"]
    /\ events' = IF found THEN events ELSE Pardoned(events, name, "cancelled", "reported")
    /\ UNCHANGED <<ban_events, hcr_outcome>>

\* unban_user returns: fp reports success; an HTTPException is not caught by fp
FpUnbanReturn(name, ok) ==
    /\ fp_calls[name].pc = "unban_wait"
    /\ fp_calls' = [fp_calls EXCEPT ![name] = FpIdle]
    /\ fp_outcome' = [fp_outcome EXCEPT ![name] = IF ok THEN "success" ELSE "HTTPException"]
    /\ events' = IF ok THEN Pardoned(events, name, "cancelled", "reported") ELSE events
    /\ UNCHANGED <<ban_events, hcr_outcome>>

\* Time passes by one unit; a due timer is run before time moves on
BanTick ==
    /\ \E e \in 1..Len(events) : events[e].ban_timer = "armed"
    /\ \A e \in 1..Len(events) : events[e].ban_timer = "armed" => events[e].remaining > 0
    /\ events' = [e \in 1..Len(events) |->
          IF events[e].ban_timer = "armed"
          THEN [events[e] EXCEPT !.remaining = @ - 1, !.armed_for = @ + 1]
          ELSE events[e]]
    /\ UNCHANGED <<ban_events, hcr_outcome, fp_calls, fp_outcome>>

\* ---- A BanEvent used on its own: constructed, started and canceled by direct
\* calls, its coroutine being ban_chatter as in handle_check_result

MaxCancels == 3     \* cancel() calls made directly

\* BanEvent(message, coroutine): timer unset, coroutine object not yet run;
\* the object is not put into ban_events and no handler is suspended on it
CreateBanEvent(name) ==
    /\ Len(events) < MaxEvents
    /\ events' = Append(events, [NewBanEvent(name, FALSE) EXCEPT !.handler = "none"])
    /\ UNCHANGED <<ban_events, hcr_outcome, fp_calls, fp_outcome, cancel_result>>

\* await ban_event.start() on an event that has not been started
EventStart(e) ==
    /\ e \in 1..Len(events)
    /\ events[e].handler = "none"
    /\ events[e].ban_timer = "none"
    /\ events' = [events EXCEPT ![e] = StartedEvent(@)]
    /\ UNCHANGED <<ban_events, hcr_outcome, fp_calls, fp_outcome, cancel_result>>

\* await ban_event.cancel(): CancelError before anything is touched, or the
\* coroutine closed and the timer canceled
EventCancel(e) ==
    /\ e \in 1..Len(events)
    /\ events[e].handler = "none"
    /\ cancel_result.n < MaxCancels
    /\ IF CancelRaises(events[e])
       THEN /\ cancel_result' = [n |-> cancel_result.n + 1, event |-> e,
                                 outcome |-> "CancelError"]
            /\ UNCHANGED events
       ELSE /\ cancel_result' = [n |-> cancel_result.n + 1, event |-> e,
                                 outcome |-> "returned"]
            /\ events' = [events EXCEPT ![e] = CancelledEvent(@)]
    /\ UNCHANGED <<ban_events, hcr_outcome, fp_calls, fp_outcome>>

(***************************************************************************)
(* Voter                                                                   *)
(* One unit of time is the vote's own; the Voter's periods are parameters  *)
(* of its constructor and are kept small here.                             *)
(***************************************************************************)
VotesRequired == 3      \* votes_required
VotePeriod    == 1      \* vote_period
FailTimeout   == 2      \* fail_timeout_s
PassTimeout   == 3      \* pass_timeout_s
MaxOrphans    == 1      \* timers still pending that the Voter no longer references
MaxInFlight   == 2      \* add_vote calls suspended at the same time

Chatters     == {"ann", "dd", "dd_2"}   \* display names of the voting chatters
double_names == {"dd"}

\* The keys add_vote puts into self.voters for one chatter
VoteEntries(name) ==
    IF name \in double_names THEN {name, name \o "_2"} ELSE {name}

\* The pair (vote_end_coro, vote_end_timer) made by the first vote of a round.
\*   timer : "none", "armed", "fired", "cancelled"
\*   coro  : "none", "created", "scheduled" (task made by the timer, not yet run),
\*           "end_send" (voting_end awaiting its announcement), "done", "closed"
\*   says  : the outcome the coroutine announced ("none", "pass", "fail")
\*   low   : the tally was below votes_required when the timer fired
NoVoteEnd  == [timer |-> "none", remaining |-> 0, coro |-> "none", says |-> "none",
               low |-> FALSE]
NewVoteEnd == [timer |-> "armed", remaining |-> VotePeriod, coro |-> "created",
               says |-> "none", low |-> FALSE]
LiveVoteEnd(p) == p.timer = "armed" \/ p.coro \in {"scheduled", "end_send"}

\* vote_end_coro.close() and vote_end_timer.cancel() of add_vote
ClosedVoteEnd(p) ==
    [p EXCEPT !.coro = IF @ \in {"created", "scheduled", "end_send"} THEN "closed" ELSE @,
              !.timer = IF @ \in {"armed", "fired"} THEN "cancelled" ELSE @]

NoTimer == [state |-> "none", remaining |-> 0]

\* add_vote call of one chatter: where it is suspended, and its locals
\*   brought : the call took the tally from below votes_required to it, with the
\*             window timer of the round not yet due
\*   says    : the outcome the call announced through voting_end
VoteIdle == [pc |-> "idle", n_votes_post |-> 0, brought |-> FALSE, says |-> "none"]

\* History of the vote, for stating the properties
\*   since_pass : time since an add_vote call that brought the tally to
\*                votes_required in time announced the pass, up to
\*                pass_timeout_s (-1: none in this closed period)
\*   since_fail : time since a window expiry announced a fail, up to
\*                fail_timeout_s (-1: none in this closed period)
\*   voted      : the chatters whose vote add_vote has taken since the votes
\*                were last cleared
VoteHistInit == [since_pass |-> -1, since_fail |-> -1, voted |-> {}]

VoteInit ==
    /\ voters = {}
    /\ vote_open = TRUE
    /\ vote_end = NoVoteEnd
    /\ vote_end_orphans = <<>>
    /\ vote_timeout_timer = NoTimer
    /\ vote_timeout_orphans = <<>>
    /\ add_vote_calls = [c \in Chatters |-> VoteIdle]
    /\ vote_hist = VoteHistInit

\* The outcome voting_end announces
VotingEndOutcome(vs) == IF Cardinality(vs) >= VotesRequired THEN "pass" ELSE "fail"

\* voting_end up to its await (the announcement), called from add_vote after it
\* closed the pending window coroutine and cancelled the window timer
EndFromAddVote(c, vs, brought, hist) ==
    /\ vote_end' = ClosedVoteEnd(vote_end)
    /\ vote_open' = FALSE
    /\ add_vote_calls' = [add_vote_calls EXCEPT ![c] =
          [pc |-> "end_send", n_votes_post |-> Cardinality(vs), brought |-> brought,
           says |-> VotingEndOutcome(vs)]]
    /\ vote_hist' = [hist EXCEPT
          !.since_pass = IF brought /\ VotingEndOutcome(vs) = "pass" THEN 0 ELSE @]

\* add_vote, lines 70-75: end the round when this call's count reached the threshold
EndCheck(c, vs, n_votes_post, brought, hist) ==
    IF n_votes_post >= VotesRequired
    THEN EndFromAddVote(c, vs, brought, hist)
    ELSE /\ add_vote_calls' = [add_vote_calls EXCEPT ![c] = VoteIdle]
         /\ vote_hist' = hist
         /\ UNCHANGED <<vote_end, vote_open>>

\* add_vote up to its first await, while vote_open is set
AddVoteOpen(c) ==
    LET n_votes_pre  == Cardinality(voters)
        vs           == voters \cup VoteEntries(c)
        n_votes_post == Cardinality(vs)
        inTime       == n_votes_pre = 0
                        \/ (vote_end.timer = "armed" /\ vote_end.remaining > 0)
        brought      == n_votes_pre < VotesRequired
                        /\ n_votes_post >= VotesRequired /\ inTime
        hist         == [vote_hist EXCEPT !.voted = @ \cup {c}]
    IN  /\ voters' = vs
        /\ IF n_votes_post > n_votes_pre
           THEN IF n_votes_pre = 0
                THEN \* a new round: make the window coroutine and timer
                     /\ LiveVoteEnd(vote_end) => Len(vote_end_orphans) < MaxOrphans
                     /\ vote_end' = NewVoteEnd
                     /\ vote_end_orphans' =
                           IF LiveVoteEnd(vote_end)
                           THEN Append(vote_end_orphans, vote_end)
                           ELSE vote_end_orphans
                     /\ add_vote_calls' = [add_vote_calls EXCEPT ![c] =
                           [pc |-> "send_started", n_votes_post |-> n_votes_post,
                            brought |-> brought, says |-> "none"]]
                     /\ vote_hist' = hist
                     /\ UNCHANGED vote_open
                ELSE /\ add_vote_calls' = [add_vote_calls EXCEPT ![c] =
                           [pc |-> "send_registered", n_votes_post |-> n_votes_post,
                            brought |-> brought, says |-> "none"]]
                     /\ vote_hist' = hist
                     /\ UNCHANGED <<vote_end, vote_end_orphans, vote_open>>
           ELSE \* a repeated vote: nothing is sent
                /\ EndCheck(c, vs, n_votes_post, FALSE, hist)
                /\ UNCHANGED vote_end_orphans
        /\ UNCHANGED <<vote_timeout_timer, vote_timeout_orphans>>

\* A closed-path add_vote that registers the vote all the same
AddVoteClosed_Registers(c) ==
    /\ voters' = voters \cup VoteEntries(c)
    /\ add_vote_calls' = [add_vote_calls EXCEPT ![c] =
          IF vote_timeout_timer.state = "none"
          THEN [VoteIdle EXCEPT !.pc = "raised"]
          ELSE [VoteIdle EXCEPT !.pc = "closed_send"]]
    /\ UNCHANGED <<vote_open, vote_end, vote_end_orphans,
                   vote_timeout_timer, vote_timeout_orphans, vote_hist>>

\* add_vote while vote_open is clear: vote_timeout_timer.when() - loop.time(),
\* then one send (an AttributeError while there has been no cooldown timer yet)
AddVoteClosed(c) ==
    /\ add_vote_calls' = [add_vote_calls EXCEPT ![c] =
          IF vote_timeout_timer.state = "none"
          THEN [VoteIdle EXCEPT !.pc = "raised"]
          ELSE [VoteIdle EXCEPT !.pc = "closed_send"]]
    /\ UNCHANGED <<voters, vote_open, vote_end, vote_end_orphans,
                   vote_timeout_timer, vote_timeout_orphans, vote_hist>>

\* add_vote up to its first await
AddVote(c) ==
    /\ add_vote_calls[c].pc \in {"idle", "raised"}
    /\ Cardinality({d \in Chatters : add_vote_calls[d].pc \notin {"idle", "raised"}})
          < MaxInFlight
    /\ IF vote_open THEN AddVoteOpen(c) ELSE AddVoteClosed(c)

\* add_vote resumes after a send
AddVoteResume(c) ==
    LET call == add_vote_calls[c] IN
    /\ call.pc \in {"send_started", "send_announce", "send_registered", "closed_send"}
    /\ IF call.pc = "send_started"
       THEN \* the second message of a new round, '/announce ...'
            /\ add_vote_calls' = [add_vote_calls EXCEPT ![c].pc = "send_announce"]
            /\ UNCHANGED <<vote_end, vote_open, vote_hist>>
       ELSE IF call.pc = "closed_send"
       THEN /\ add_vote_calls' = [add_vote_calls EXCEPT ![c] = VoteIdle]
            /\ UNCHANGED <<vote_end, vote_open, vote_hist>>
       ELSE EndCheck(c, voters, call.n_votes_post, call.brought, vote_hist)
    /\ UNCHANGED <<voters, vote_end_orphans, vote_timeout_timer, vote_timeout_orphans>>

\* self.vote_timeout_timer = call_later(timeout_s, self.voting_enable)
ArmedCooldown(timeout_s) == [state |-> "armed", remaining |-> timeout_s]

ArmCooldown(timeout_s) ==
    /\ vote_timeout_timer.state = "armed" => Len(vote_timeout_orphans) < MaxOrphans
    /\ vote_timeout_timer' = ArmedCooldown(timeout_s)
    /\ vote_timeout_orphans' =
          IF vote_timeout_timer.state = "armed"
          THEN Append(vote_timeout_orphans, vote_timeout_timer.remaining)
          ELSE vote_timeout_orphans

\* voting_end called from add_vote resumes after the announcement: the cooldown
\* is armed with pass_timeout_s
AddVoteEndResume(c) ==
    /\ add_vote_calls[c].pc = "end_send"
    /\ ArmCooldown(PassTimeout)
    /\ add_vote_calls' = [add_vote_calls EXCEPT ![c] = VoteIdle]
    /\ UNCHANGED <<voters, vote_open, vote_end, vote_end_orphans, vote_hist>>

\* The loop runs the due window timer: asyncio.create_task(self.vote_end_coro)
FiredVoteEnd(p) ==
    [p EXCEPT !.timer = "fired", !.coro = "scheduled",
              !.low = Cardinality(voters) < VotesRequired]

WindowFire ==
    /\ vote_end.timer = "armed" /\ vote_end.remaining = 0
    /\ vote_end' = FiredVoteEnd(vote_end)
    /\ UNCHANGED <<voters, vote_open, vote_end_orphans, vote_timeout_timer,
                   vote_timeout_orphans, add_vote_calls, vote_hist>>

OrphanWindowFire(i) ==
    /\ i \in 1..Len(vote_end_orphans)
    /\ vote_end_orphans[i].timer = "armed" /\ vote_end_orphans[i].remaining = 0
    /\ vote_end_orphans' = [vote_end_orphans EXCEPT ![i] = FiredVoteEnd(@)]
    /\ UNCHANGED <<voters, vote_open, vote_end, vote_timeout_timer,
                   vote_timeout_orphans, add_vote_calls, vote_hist>>

\* voting_end run as the window timer's task, up to its await: close the vote,
\* pick the announcement
ExpiryHist ==
    [vote_hist EXCEPT
        !.since_fail = IF VotingEndOutcome(voters) = "fail" THEN 0 ELSE @]

WindowTaskStart ==
    /\ vote_end.coro = "scheduled"
    /\ vote_end' = [vote_end EXCEPT !.coro = "end_send",
                                    !.says = VotingEndOutcome(voters)]
    /\ vote_open' = FALSE
    /\ vote_hist' = ExpiryHist
    /\ UNCHANGED <<voters, vote_end_orphans, vote_timeout_timer,
                   vote_timeout_orphans, add_vote_calls>>

OrphanWindowTaskStart(i) ==
    /\ i \in 1..Len(vote_end_orphans)
    /\ vote_end_orphans[i].coro = "scheduled"
    /\ vote_end_orphans' = [vote_end_orphans EXCEPT
          ![i].coro = "end_send", ![i].says = VotingEndOutcome(voters)]
    /\ vote_open' = FALSE
    /\ vote_hist' = ExpiryHist
    /\ UNCHANGED <<voters, vote_end, vote_timeout_timer,
                   vote_timeout_orphans, add_vote_calls>>

\* ... and after the announcement: the cooldown is armed with fail_timeout_s,
\* the timeout the coroutine was created with
WindowTaskResume ==
    /\ vote_end.coro = "end_send"
    /\ ArmCooldown(FailTimeout)
    /\ vote_end' = [vote_end EXCEPT !.coro = "done"]
    /\ UNCHANGED <<voters, vote_open, vote_end_orphans, add_vote_calls, vote_hist>>

RemoveAt(seq, i) == [j \in 1..(Len(seq) - 1) |-> IF j < i THEN seq[j] ELSE seq[j + 1]]

OrphanWindowTaskResume(i) ==
    /\ i \in 1..Len(vote_end_orphans)
    /\ vote_end_orphans[i].coro = "end_send"
    /\ ArmCooldown(FailTimeout)
    /\ vote_end_orphans' = RemoveAt(vote_end_orphans, i)
    /\ UNCHANGED <<voters, vote_open, vote_end, add_vote_calls, vote_hist>>

\* voting_enable: clear the old votes, allow new ones
VotingEnable ==
    /\ voters' = {}
    /\ vote_open' = TRUE
    /\ vote_hist' = VoteHistInit

CooldownFire ==
    /\ vote_timeout_timer.state = "armed" /\ vote_timeout_timer.remaining = 0
    /\ vote_timeout_timer' = [vote_timeout_timer EXCEPT !.state = "fired"]
    /\ VotingEnable
    /\ UNCHANGED <<vote_end, vote_end_orphans, vote_timeout_orphans, add_vote_calls>>

OrphanCooldownFire(i) ==
    /\ i \in 1..Len(vote_timeout_orphans)
    /\ vote_timeout_orphans[i] = 0
    /\ vote_timeout_orphans' = RemoveAt(vote_timeout_orphans, i)
    /\ VotingEnable
    /\ UNCHANGED <<vote_end, vote_end_orphans, vote_timeout_timer, add_vote_calls>>

TickVoteEnd(p) == IF p.timer = "armed" THEN [p EXCEPT !.remaining = @ - 1] ELSE p

\* Time passes by one unit; a due timer is run before time moves on
VoteTick ==
    /\ vote_end.timer = "armed" => vote_end.remaining > 0
    /\ \A i \in 1..Len(vote_end_orphans) :
          vote_end_orphans[i].timer = "armed" => vote_end_orphans[i].remaining > 0
    /\ vote_timeout_timer.state = "armed" => vote_timeout_timer.remaining > 0
    /\ \A i \in 1..Len(vote_timeout_orphans) : vote_timeout_orphans[i] > 0
    /\ \/ vote_end.timer = "armed"
       \/ vote_timeout_timer.state = "armed"
       \/ vote_end_orphans # <<>>
       \/ vote_timeout_orphans # <<>>
    /\ vote_end' = TickVoteEnd(vote_end)
    /\ vote_end_orphans' = [i \in 1..Len(vote_end_orphans) |-> TickVoteEnd(vote_end_orphans[i])]
    /\ vote_timeout_timer' = IF vote_timeout_timer.state = "armed"
                             THEN [vote_timeout_timer EXCEPT !.remaining = @ - 1]
                             ELSE vote_timeout_timer
    /\ vote_timeout_orphans' = [i \in 1..Len(vote_timeout_orphans) |-> vote_timeout_orphans[i] - 1]
    /\ vote_hist' = [vote_hist EXCEPT
          !.since_pass = IF @ >= 0 THEN Min(@ + 1, PassTimeout) ELSE @,
          !.since_fail = IF @ >= 0 THEN Min(@ + 1, FailTimeout) ELSE @]
    /\ UNCHANGED <<voters, vote_open, add_vote_calls>>

(***************************************************************************)
(* GambleParser                                                            *)
(***************************************************************************)
MAX_LOSS_FACTOR == 500  \* GambleParser.MAX_LOSS_FACTOR
gamble_base     == 1    \* self.__gamble_base
\* parse_message's out-of-funds result, -sys.maxsize - 1: the smallest integer
\* of the platform, here the smallest one of the checker
OutOfFunds      == -2147483647

MaxBets     == 2        \* largest n_bets a session is started with
MaxSessions == 2        \* start_gamble calls in one run
MaxQueue    == 2        \* results waiting in result_q
MaxSent     == 3        \* bet commands counted per session

\* Chat messages as parse_message tells them apart: the author, which preamble
\* the text starts with, and the first number after it (-1: no digit follows)
GambleAuthors == {"StreamElements", "someone"}
GambleKinds   == {"win", "win_all", "loss", "loss_all", "broke", "other"}
Amounts       == {0, 1, MAX_LOSS_FACTOR, MAX_LOSS_FACTOR + 1}
\* Chat messages as the parser sees them: who wrote it, which of the responder's
\* phrasings it has, and the number in it (-1: no number where one is expected).
\* The samples leave out messages the parser cannot tell from one in the set.
GambleMessages ==
    {m \in [author : GambleAuthors, kind : GambleKinds, amount : Amounts \cup {-1}] :
        /\ m.kind \in {"broke", "other"} => m.amount = -1
        /\ m.kind \in {"win_all", "loss_all"} => m.amount \in {-1, 1}
        /\ m.author # "StreamElements" => m.kind \in {"win", "other"} /\ m.amount \in {-1, 1}}

\* A parse_message that does not look at the author
ParseMessage_AnyAuthor(m) ==
    IF m.kind \in {"win", "win_all", "loss", "loss_all"}
    THEN IF m.amount < 0 THEN [is |-> "AttributeError", value |-> 0]
         ELSE IF m.kind \in {"win", "win_all"} THEN [is |-> "int", value |-> m.amount]
         ELSE [is |-> "int", value |-> m.amount * (-1)]
    ELSE IF m.kind = "broke" THEN [is |-> "int", value |-> OutOfFunds]
    ELSE [is |-> "None", value |-> 0]

\* GambleParser.parse_message.  is: "int" (value holds the result), "None" (no
\* result), "AttributeError" (the preamble matches and no number follows:
\* re.search returns None)
ParseMessage(m) ==
    IF m.author # "StreamElements" THEN [is |-> "None", value |-> 0]
    ELSE IF m.kind \in {"win", "win_all", "loss", "loss_all"}
    THEN IF m.amount < 0 THEN [is |-> "AttributeError", value |-> 0]
         ELSE IF m.kind \in {"win", "win_all"} THEN [is |-> "int", value |-> m.amount]
         ELSE [is |-> "int", value |-> m.amount * (-1)]
    ELSE IF m.kind = "broke" THEN [is |-> "int", value |-> OutOfFunds]
    ELSE [is |-> "None", value |-> 0]

\* event_message: `if gamble_result:` keeps None and 0 out of the queue
Truthy(r) == r.is = "int" /\ r.value # 0

\* History of the session, for stating the properties
\*   sessions     : start_gamble calls so far
\*   unanswered   : bet commands sent that the responder has neither answered
\*                  nor dropped
\*   n_sent       : bet commands sent in this session (first sends and re-sends)
\*   last_sent    : stake of the bet command sent last (-1: none yet)
\*   resend       : stake of the last re-send after a timeout and the stake of the
\*                  bet command sent before it (-1: no re-send yet)
\*   overlap      : "none", or why the last bet command overlapped an earlier bet
\*   rounds       : results consumed as Win/Loss in this session
\*   stale_at_start : result_q was not empty when the session started
\*   foreign      : a message of an author other than the responder was
\*                  handled in this session while bets remained
GambleHistInit ==
    [sessions |-> 0, unanswered |-> 0, n_sent |-> 0, last_sent |-> -1,
     resend |-> [stake |-> -1, previous |-> -1], overlap |-> "none", rounds |-> 0, n_bets |-> 0,
     stale_at_start |-> FALSE, foreign |-> FALSE]

GambleInit ==
    /\ gambles_remaining = 0
    /\ result_q = <<>>
    /\ gamble_pc = "idle"
    /\ winnings = 0
    /\ bet = 0
    /\ gamble_hist = GambleHistInit

\* What sending one bet command does to the history
SentHist(h, stake, isResend) ==
    [h EXCEPT !.unanswered = Min(@ + 1, MaxSent),
              !.n_sent = Min(@ + 1, MaxSent),
              !.last_sent = stake,
              !.resend = IF isResend THEN [stake |-> stake, previous |-> h.last_sent]
                         ELSE @,
              !.overlap = IF \E i \in 1..Len(result_q) : result_q[i].answer
                          THEN "reply in result_q"
                          ELSE IF h.unanswered > 0 THEN "reply pending"
                          ELSE "none"]

\* start_gamble: set the counter and create the routine's task.  Sessions are
\* started one after the other.
StartGamble(n_bets) ==
    /\ gamble_pc \in {"idle", "done"}
    /\ gamble_hist.sessions < MaxSessions
    /\ gambles_remaining' = n_bets
    /\ gamble_pc' = "created"
    /\ gamble_hist' = [gamble_hist EXCEPT
          !.sessions = @ + 1, !.n_sent = 0, !.last_sent = -1,
          !.resend = [stake |-> -1, previous |-> -1],
          !.overlap = "none", !.rounds = 0, !.n_bets = n_bets,
          !.stale_at_start = (result_q # <<>>), !.foreign = FALSE]
    /\ UNCHANGED <<result_q, winnings, bet>>

\* gamble_routine up to its first await: winnings = 0, the opening bet is sent
GambleKickoff ==
    /\ gamble_pc = "created"
    /\ winnings' = 0
    /\ gamble_hist' = SentHist(gamble_hist, gamble_base, FALSE)
    /\ gamble_pc' = "send_open"
    /\ UNCHANGED <<gambles_remaining, result_q, bet>>

\* `while self.gambles_remaining.value > 0`
LoopHead(remaining) == IF remaining > 0 THEN "wait" ELSE "done"

\* The opening send returns: bet = 0, then the loop is entered
GambleOpened ==
    /\ gamble_pc = "send_open"
    /\ bet' = 0
    /\ gamble_pc' = LoopHead(gambles_remaining)
    /\ UNCHANGED <<gambles_remaining, result_q, winnings, gamble_hist>>

\* wait_for(result_q.get(), timeout) runs out with nothing in the queue
GambleTimeout ==
    /\ gamble_pc = "wait"
    /\ result_q = <<>>
    /\ gamble_pc' = "sleep"
    /\ UNCHANGED <<gambles_remaining, result_q, winnings, bet, gamble_hist>>

\* After the sleep the bet is sent again, with the routine's `bet`
GambleResend ==
    /\ gamble_pc = "sleep"
    /\ gamble_hist.n_sent < MaxSent
    /\ gamble_hist' = SentHist(gamble_hist, bet, TRUE)
    /\ gamble_pc' = "resend"
    /\ UNCHANGED <<gambles_remaining, result_q, winnings, bet>>

\* A send in the loop returns: `continue`, or the end of the loop body
GambleSent ==
    /\ gamble_pc \in {"resend", "send_next"}
    /\ gamble_pc' = LoopHead(gambles_remaining)
    /\ UNCHANGED <<gambles_remaining, result_q, winnings, bet, gamble_hist>>

\* A guard that also stops at a loss of exactly base x MAX_LOSS_FACTOR
MassiveLoss_AtOrBelow(result) ==
    ~(result > 0) /\ result <= gamble_base * MAX_LOSS_FACTOR * (-1)

\* `elif result < self.__gamble_base * GambleParser.MAX_LOSS_FACTOR * -1`
MassiveLoss(result) ==
    ~(result > 0) /\ result < gamble_base * MAX_LOSS_FACTOR * (-1)

\* A next stake that repeats the lost amount instead of doubling it
NextBet_LossRepeated(result) == IF result > 0 THEN gamble_base ELSE result * (-1)

\* A next stake that does not go back to the base after a win
NextBet_WinKeepsStake(result) == IF result > 0 THEN result ELSE result * (-2)

\* The stake after a Win/Loss result when bets remain
NextBet(result) == IF result > 0 THEN gamble_base ELSE result * (-2)

\* A routine that goes on waiting after the out-of-funds result
OutOfFundsResult_KeepsWaiting ==
    /\ gamble_pc' = "wait"
    /\ UNCHANGED <<gambles_remaining, winnings, bet, gamble_hist>>

\* The out-of-funds result: the counter is set to 0 and the loop ends
OutOfFundsResult ==
    /\ gambles_remaining' = 0
    /\ gamble_pc' = "done"
    /\ UNCHANGED <<winnings, bet, gamble_hist>>

\* A Win/Loss result: added to winnings, the counter decremented, then the
\* next bet or the end of the loop
WinLossResult(result) ==
    /\ winnings' = winnings + result
    /\ IF gambles_remaining - 1 > 0
       THEN IF MassiveLoss(result)
            THEN /\ gambles_remaining' = 0
                 /\ gamble_pc' = "done"
                 /\ gamble_hist' = [gamble_hist EXCEPT !.rounds = @ + 1]
                 /\ UNCHANGED bet
            ELSE /\ gamble_hist.n_sent < MaxSent
                 /\ gambles_remaining' = gambles_remaining - 1
                 /\ bet' = NextBet(result)
                 /\ gamble_hist' = SentHist(
                       [gamble_hist EXCEPT !.rounds = @ + 1],
                       NextBet(result), FALSE)
                 /\ gamble_pc' = "send_next"
       ELSE /\ gambles_remaining' = gambles_remaining - 1
            /\ gamble_pc' = "done"
            /\ gamble_hist' = [gamble_hist EXCEPT !.rounds = @ + 1]
            /\ UNCHANGED bet

\* A result comes out of the queue and is handled up to the next await
GambleResult ==
    /\ gamble_pc = "wait"
    /\ result_q # <<>>
    /\ LET result == Head(result_q).value IN
       /\ result_q' = Tail(result_q)
       /\ IF result = OutOfFunds THEN OutOfFundsResult ELSE WinLossResult(result)

\* event_message, the gamble part: while bets remain, a message that parses to
\* a result is put on result_q.  `answers` tells whether the message is the
\* responder's answer to a bet command of the routine that is still unanswered
\* (the responder also answers bets the account places by hand); result_q
\* keeps it and the author with the value, for stating the properties.
GambleMessage(m, answers) ==
    /\ answers => (gamble_hist.unanswered > 0 /\ m.author = "StreamElements"
                   /\ m.kind # "other")
    /\ IF gambles_remaining > 0 /\ Truthy(ParseMessage(m))
       THEN /\ Len(result_q) < MaxQueue
            /\ result_q' = Append(result_q,
                  [value |-> ParseMessage(m).value, answer |-> answers,
                   author |-> m.author])
       ELSE UNCHANGED result_q
    /\ gamble_hist' = [gamble_hist EXCEPT
          !.unanswered = IF answers THEN @ - 1 ELSE @,
          !.foreign = @ \/ (m.author # "StreamElements" /\ gambles_remaining > 0)]
    /\ UNCHANGED <<gambles_remaining, gamble_pc, winnings, bet>>

\* The responder never answers a bet command (it was lost or ignored)
GambleDropped ==
    /\ gamble_hist.unanswered > 0
    /\ gamble_hist' = [gamble_hist EXCEPT !.unanswered = @ - 1]
    /\ UNCHANGED <<gambles_remaining, result_q, gamble_pc, winnings, bet>>

(***************************************************************************)
(* MessageChecker                                                          *)
(***************************************************************************)
\* TwitchBot builds its checker with cyrillics_score=10
cyrillics_score == 10

\* Phrases of the tier lists and the keys of flaggedTiers ("x": no integer)
Phrases  == {"spam", "free"}
TierKeys == {"5", "2", "x"}

\* int(tier, base=10); -1 stands for the ValueError of a key that is no integer
TierWeight(tier) == IF tier = "5" THEN 5 ELSE IF tier = "2" THEN 2 ELSE -1

\* The checker after __init__'s own assignments, before read_config_file
\*   flagged_re : tier key -> the phrases of its compiled pattern ({}: no entry)
\*   joined_channels : "dict" (a channel -> token dict, as the signature says)
\*                     or "JoinChannels" (the object TwitchBot passes)
DefaultChecker(joined) ==
    [name |-> "default", flagged_re |-> [t \in TierKeys |-> {}], min_score |-> 999,
     follow_time_days_cutoff |-> 0, follow_time_multiplier |-> 1,
     first_time_chatter_multiplier |-> 1, bot_names |-> {},
     silent_ignore_bots |-> FALSE, ignore_channel_staff |-> FALSE,
     ignore_vip |-> FALSE, ignore_subscriber |-> FALSE, ignore_follower |-> FALSE,
     joined_channels |-> joined]

Options == [silent_ignore_bots : BOOLEAN, ignore_channel_staff : BOOLEAN,
            ignore_vip : BOOLEAN, ignore_subscriber : BOOLEAN,
            ignore_follower : BOOLEAN]
AllOptions == [silent_ignore_bots |-> TRUE, ignore_channel_staff |-> TRUE,
               ignore_vip |-> TRUE, ignore_subscriber |-> TRUE,
               ignore_follower |-> TRUE]
NoOptions  == [silent_ignore_bots |-> FALSE, ignore_channel_staff |-> FALSE,
               ignore_vip |-> FALSE, ignore_subscriber |-> FALSE,
               ignore_follower |-> FALSE]

\* A filter configuration file (bot-filter.json)
MakeConfig(name, tiers, minScore, cutoff, ftm, fcm, bots, options) ==
    [name |-> name, flaggedTiers |-> tiers, minScore |-> minScore,
     follow_time_days_cutoff |-> cutoff, follow_time_multiplier |-> ftm,
     first_time_chatter_multiplier |-> fcm, bot_names |-> bots, options |-> options]

Tiers(five, two, x) == [t \in TierKeys |->
    IF t = "5" THEN five ELSE IF t = "2" THEN two ELSE x]

\* The configuration files the reloads of the model read
SampleConfigs ==
    { MakeConfig("strict", Tiers({"spam"}, {"free"}, {}), 5, 7, 2, 2, {"bob"}, AllOptions),
      MakeConfig("plain",  Tiers({"spam"}, {}, {}),       5, 7, 1, 1, {},      NoOptions),
      MakeConfig("broken", Tiers({}, {}, {"spam"}),       5, 7, 1, 1, {},      NoOptions) }

\* Where read_config_file stops: "none" (it runs to its end), "file" (the file
\* is missing: FileNotFoundError is caught, nothing is read), or the key whose
\* lookup raises, everything before it having been assigned
FailStages == {"none", "file", "minScore", "multipliers", "bot_names", "options", "name"}
StageOrder(stage) ==
    CASE stage = "file" -> 0 [] stage = "minScore" -> 1 [] stage = "multipliers" -> 2
      [] stage = "bot_names" -> 3 [] stage = "options" -> 4 [] stage = "name" -> 5
      [] OTHER -> 6

\* The tier loop: a non-empty list replaces the tier's pattern, an empty one is
\* skipped; entries of earlier loads are never removed
LoadedTiers(flagged_re, tiers) ==
    [t \in TierKeys |-> IF tiers[t] # {} THEN tiers[t] ELSE flagged_re[t]]

\* A read_config_file that assigns the name before the other fields
ReadConfigFile_NameFirst(ch, cfg, fail_at) ==
    LET n == StageOrder(fail_at) IN
    [ch EXCEPT
       !.name = IF n >= 1 THEN cfg.name ELSE @,
       !.flagged_re = IF n >= 1 THEN LoadedTiers(@, cfg.flaggedTiers) ELSE @,
       !.min_score = IF n >= 2 THEN cfg.minScore ELSE @]

\* MessageChecker.read_config_file: the assignments in the order of the code
ReadConfigFile(ch, cfg, fail_at) ==
    LET n == StageOrder(fail_at) IN
    [ch EXCEPT
       !.flagged_re = IF n >= 1 THEN LoadedTiers(@, cfg.flaggedTiers) ELSE @,
       !.min_score = IF n >= 2 THEN cfg.minScore ELSE @,
       !.follow_time_days_cutoff = IF n >= 3 THEN cfg.follow_time_days_cutoff ELSE @,
       !.follow_time_multiplier = IF n >= 3 THEN cfg.follow_time_multiplier ELSE @,
       !.first_time_chatter_multiplier =
            IF n >= 3 THEN cfg.first_time_chatter_multiplier ELSE @,
       !.bot_names = IF n >= 4 THEN cfg.bot_names ELSE @,
       !.silent_ignore_bots = IF n >= 5 THEN cfg.options.silent_ignore_bots ELSE @,
       !.ignore_channel_staff = IF n >= 5 THEN cfg.options.ignore_channel_staff ELSE @,
       !.ignore_vip = IF n >= 5 THEN cfg.options.ignore_vip ELSE @,
       !.ignore_subscriber = IF n >= 5 THEN cfg.options.ignore_subscriber ELSE @,
       !.ignore_follower = IF n >= 5 THEN cfg.options.ignore_follower ELSE @,
       !.name = IF n >= 6 THEN cfg.name ELSE @]

\* A chat message as check_message reads it.
\*   content     : the phrase occurrences left after IGNORED_SET.sub, in order,
\*                 each with the letter case it is written in
\*   follow_days : days the author follows the channel (-1: not following)
Occurrence(phrase, upper) == [phrase |-> phrase, upper |-> upper]
Contents ==
    { <<>>,
      <<Occurrence("spam", FALSE)>>,
      <<Occurrence("spam", FALSE), Occurrence("spam", FALSE)>>,
      <<Occurrence("spam", FALSE), Occurrence("spam", TRUE)>>,
      <<Occurrence("spam", FALSE), Occurrence("free", FALSE)>> }
FollowDays == {-1, 3, 30}
Messages ==
    [author : Subjects, content : Contents, cyrillic : BOOLEAN, first : BOOLEAN,
     is_staff : BOOLEAN, vip : BOOLEAN, is_subscriber : BOOLEAN,
     follow_days : FollowDays]

\* set(re.findall(tier_re, filtered_msg)): the matched texts as written
TierMatches(phrases, content) ==
    { <<content[i].phrase, content[i].upper>> :
        i \in { j \in 1..Len(content) : content[j].phrase \in phrases } }

RECURSIVE SumTiers(_, _, _)
SumTiers(tiers, flagged_re, content) ==
    IF tiers = {} THEN 0
    ELSE LET t == CHOOSE k \in tiers : TRUE IN
         TierWeight(t) * Cardinality(TierMatches(flagged_re[t], content))
           + SumTiers(tiers \ {t}, flagged_re, content)

LoadedTierKeys(ch) == { t \in TierKeys : ch.flagged_re[t] # {} }

\* A CheckResult, or the exception check_message ends with
Returned(result_type, reason, score) ==
    [status |-> "returned", error |-> "none", result_type |-> result_type,
     ignore_reason |-> reason, message_score |-> score]
Raised(error) ==
    [status |-> "raised", error |-> error, result_type |-> "None",
     ignore_reason |-> NoReason, message_score |-> 0]

\* A check_message without the check of the name
NameGuard_Missing(ch) == FALSE

\* `if self.name == 'default'`: the check is not run
NameGuard(ch) == ch.name = "default"

\* check_message up to its first await: the guard on the name, the tier scores
\* and the cyrillics bonus
CheckHead(ch, m) ==
    IF NameGuard(ch) THEN Returned("ERROR", NoReason, 0)
    ELSE IF \E t \in LoadedTierKeys(ch) : TierWeight(t) < 0 THEN Raised("ValueError")
    ELSE Returned("None", NoReason,
                  SumTiers(LoadedTierKeys(ch), ch.flagged_re, m.content)
                    + (IF m.cyrillic THEN cyrillics_score ELSE 0))

\* An ignore rule that applies: only a MATCH becomes IGNORED
Downgrade(result_type, reason, score) ==
    IF result_type = "MATCH" THEN Returned("IGNORED", reason, score)
    ELSE Returned(result_type, NoReason, score)

\* A friendly-bot rule guarded like the other ignore rules
FriendlyBotRule_MatchOnly(ch, m, result_type, score) ==
    Downgrade(result_type, "FRIENDLY_BOT", score)

\* A friendly-bot rule that gives way to the channel-staff rule
FriendlyBotRule_StaffFirst(ch, m, result_type, score) ==
    IF ch.ignore_channel_staff /\ m.is_staff
    THEN Downgrade(result_type, "CHANNEL_STAFF", score)
    ELSE Returned("IGNORED", "FRIENDLY_BOT", score)

\* The friendly-bot rule, lines 208-210
FriendlyBotRule(ch, m, result_type, score) ==
    Returned("IGNORED", "FRIENDLY_BOT", score)

\* check_message after the lookups: multipliers, threshold, ignore rules.
\* token: a token is stored for the message's channel
CheckTail(ch, m, score, token) ==
    IF ch.joined_channels # "dict" THEN Raised("AttributeError")
    ELSE
    LET follows == token /\ m.follow_days >= 0
        s1 == IF token /\ (~follows \/ m.follow_days <= ch.follow_time_days_cutoff)
              THEN score * ch.follow_time_multiplier ELSE score
        s2 == IF m.first THEN s1 * ch.first_time_chatter_multiplier ELSE s1
        tentative == IF s2 >= ch.min_score THEN "MATCH" ELSE "NO_MATCH"
    IN  IF ch.silent_ignore_bots /\ m.author \in ch.bot_names
        THEN FriendlyBotRule(ch, m, tentative, s2)
        ELSE IF ch.ignore_channel_staff /\ m.is_staff
        THEN Downgrade(tentative, "CHANNEL_STAFF", s2)
        ELSE IF ch.ignore_vip /\ m.vip
        THEN Downgrade(tentative, "VIP", s2)
        ELSE IF ch.ignore_subscriber /\ m.is_subscriber
        THEN Downgrade(tentative, "SUBSCRIBER", s2)
        ELSE IF ch.ignore_follower
        THEN IF ~token THEN Raised("UnboundLocalError")
             ELSE IF follows THEN Downgrade(tentative, "FOLLOWER", s2)
             ELSE Returned(tentative, NoReason, s2)
        ELSE Returned(tentative, NoReason, s2)

\* The tentative outcome of line 201-204, for stating the properties
Tentative(ch, m, score, token) ==
    LET follows == token /\ m.follow_days >= 0
        s1 == IF token /\ (~follows \/ m.follow_days <= ch.follow_time_days_cutoff)
              THEN score * ch.follow_time_multiplier ELSE score
        s2 == IF m.first THEN s1 * ch.first_time_chatter_multiplier ELSE s1
    IN  IF s2 >= ch.min_score THEN "MATCH" ELSE "NO_MATCH"

\* The messages of the runs with reloads
SampleMessages ==
    { m \in Messages : ~m.cyrillic /\ ~m.vip /\ ~m.is_subscriber /\ ~m.first
                       /\ m.follow_days \in {-1, 30} }
NoMessage == CHOOSE m \in SampleMessages : TRUE
\* The evaluation in flight: its message, the score of the tier loop, whether
\* a configuration had been read to its end when it started, and, for stating
\* the properties, what the rest of the evaluation gives with the fields the
\* checker had when it started (with and without a token for the channel)
NoCheck   == [pc |-> "idle", message |-> NoMessage, score |-> 0, loaded |-> FALSE,
              expect |-> [t \in BOOLEAN |-> Raised("none")]]

\* check_hist: about the last finished evaluation
\*   ever_loaded : a read_config_file call has run to its end
\*   loaded_at_start : ever_loaded when the evaluation started
\*   result      : what check_message ended with
\*   tentative   : the outcome before the ignore rules ("None": not reached)
\*   registry_changed : handling the result changed ban_events or events
\*   reloaded    : name of the configuration the last ?reload read to its end
\*                 ("none": no reload yet, or the last one stopped early)
CheckHistInit(loaded) ==
    [ever_loaded |-> loaded, loaded_at_start |-> loaded, result |-> Raised("none"),
     tentative |-> "None", registry_changed |-> FALSE, reloaded |-> "none"]

\* The state after MessageChecker.__init__: the configuration file was missing
\* or was read
FilterInit ==
    /\ \E joined \in {"dict", "JoinChannels"} :
         \/ /\ checker = DefaultChecker(joined)
            /\ check_hist = CheckHistInit(FALSE)
         \/ \E cfg \in SampleConfigs :
              /\ checker = ReadConfigFile(DefaultChecker(joined), cfg, "none")
              /\ check_hist = CheckHistInit(TRUE)
    /\ checks = NoCheck

FilterInitIdle ==
    /\ checker = DefaultChecker("dict")
    /\ check_hist = CheckHistInit(FALSE)
    /\ checks = NoCheck

\* The CheckResult check_message returns, as handle_check_result sees it
AsCheckResult(res, m) ==
    [subject |-> m.author, result_type |-> res.result_type,
     ignore_reason |-> res.ignore_reason, message_score |-> res.message_score,
     has_multipliers |-> FALSE]

\* ?reload by channel staff: read_config_file on the running checker
Reload(cfg, fail_at) ==
    /\ checker' = ReadConfigFile(checker, cfg, fail_at)
    /\ check_hist' = [check_hist EXCEPT
          !.ever_loaded = @ \/ fail_at = "none",
          !.reloaded = IF fail_at = "none" THEN cfg.name ELSE "none"]
    /\ UNCHANGED <<checks, banVars>>

\* event_message: check_message ended with `res`; a returned result goes to
\* handle_check_result at once
Conclude(res, tentative, loaded, m) ==
    /\ IF res.status = "returned"
       THEN HandleCheckResult(AsCheckResult(res, m))
       ELSE UNCHANGED banVars
    /\ check_hist' = [check_hist EXCEPT
          !.loaded_at_start = loaded, !.result = res, !.tentative = tentative,
          !.registry_changed = (ban_events' # ban_events \/ events' # events)]

\* event_message up to the first await of check_message
EventMessage(m) ==
    /\ checks.pc = "idle"
    /\ LET head == CheckHead(checker, m) IN
       IF head.status = "returned" /\ head.result_type = "None"
       THEN /\ checks' = [pc |-> "lookups", message |-> m, score |-> head.message_score,
                            loaded |-> check_hist.ever_loaded,
                            expect |-> [t \in BOOLEAN |->
                                CheckTail(checker, m, head.message_score, t)]]
            /\ UNCHANGED <<checker, check_hist, banVars>>
       ELSE /\ Conclude(head, "None", check_hist.ever_loaded, m)
            /\ UNCHANGED <<checker, checks>>

\* check_message resumes after the lookups (which may raise an HTTPException)
EventMessageResume(token, lookups_ok) ==
    /\ checks.pc = "lookups"
    /\ LET m   == checks.message
           res == IF lookups_ok THEN CheckTail(checker, m, checks.score, token)
                  ELSE Raised("HTTPException")
           tentative == IF lookups_ok /\ checker.joined_channels = "dict"
                        THEN Tentative(checker, m, checks.score, token) ELSE "None"
       IN Conclude(res, tentative, checks.loaded, m)
    /\ checks' = NoCheck
    /\ UNCHANGED checker

(***************************************************************************)
(* Specifications: one per part of the bot, the other parts at rest        *)
(***************************************************************************)
Init == BanInit /\ VoteInit /\ GambleInit /\ FilterInitIdle

notBan    == <<eventVars, voteVars, gambleVars, filterVars>>
notVote   == <<banVars, eventVars, gambleVars, filterVars>>
notGamble == <<banVars, eventVars, voteVars, filterVars>>
notFilter == <<eventVars, voteVars, gambleVars>>

\* The ban machinery: results handed to handle_check_result, the grace-period
\* timers, ban_chatter and the ?fp command
Next ==
    \/ \E cr \in CheckResults : HandleMatch(cr) /\ UNCHANGED notBan
    \/ \E cr \in CheckResults : HandleOther(cr) /\ UNCHANGED notBan
    \/ \E e \in 1..MaxEvents, ok \in BOOLEAN : TimeoutReturn(e, ok) /\ UNCHANGED notBan
    \/ \E e \in 1..MaxEvents : TimerFire(e) /\ UNCHANGED notBan
    \/ \E e \in 1..MaxEvents : BanTaskStart(e) /\ UNCHANGED notBan
    \/ \E e \in 1..MaxEvents, ok \in BOOLEAN : BanCall(e, ok) /\ UNCHANGED notBan
    \/ \E e \in 1..MaxEvents, answer \in BanAnswers : BanReturn(e, answer) /\ UNCHANGED notBan
    \/ \E name \in Subjects : Fp(name) /\ UNCHANGED notBan
    \/ \E name \in Subjects, found \in BOOLEAN : FpLookup(name, found) /\ UNCHANGED notBan
    \/ \E name \in Subjects, ok \in BOOLEAN : FpUnbanReturn(name, ok) /\ UNCHANGED notBan
    \/ BanTick /\ UNCHANGED notBan

Spec == Init /\ [][Next]_vars

\* One BanEvent object after another, driven by direct calls and by the loop
notBanEvent == <<voteVars, gambleVars, filterVars>>

BanEventNext ==
    \/ \E name \in Subjects : CreateBanEvent(name) /\ UNCHANGED notBanEvent
    \/ \E e \in 1..MaxEvents : EventStart(e) /\ UNCHANGED notBanEvent
    \/ \E e \in 1..MaxEvents : EventCancel(e) /\ UNCHANGED notBanEvent
    \/ \E e \in 1..MaxEvents : TimerFire(e) /\ UNCHANGED notBan
    \/ \E e \in 1..MaxEvents : BanTaskStart(e) /\ UNCHANGED notBan
    \/ \E e \in 1..MaxEvents, ok \in BOOLEAN : BanCall(e, ok) /\ UNCHANGED notBan
    \/ \E e \in 1..MaxEvents, answer \in BanAnswers : BanReturn(e, answer) /\ UNCHANGED notBan
    \/ BanTick /\ UNCHANGED notBan

SpecBanEvent == Init /\ [][BanEventNext]_vars

\* The break vote
VoteNext ==
    \/ \E c \in Chatters : AddVote(c) /\ UNCHANGED notVote
    \/ \E c \in Chatters : AddVoteResume(c) /\ UNCHANGED notVote
    \/ \E c \in Chatters : AddVoteEndResume(c) /\ UNCHANGED notVote
    \/ WindowFire /\ UNCHANGED notVote
    \/ WindowTaskStart /\ UNCHANGED notVote
    \/ WindowTaskResume /\ UNCHANGED notVote
    \/ \E i \in 1..MaxOrphans : OrphanWindowFire(i) /\ UNCHANGED notVote
    \/ \E i \in 1..MaxOrphans : OrphanWindowTaskStart(i) /\ UNCHANGED notVote
    \/ \E i \in 1..MaxOrphans : OrphanWindowTaskResume(i) /\ UNCHANGED notVote
    \/ CooldownFire /\ UNCHANGED notVote
    \/ \E i \in 1..MaxOrphans : OrphanCooldownFire(i) /\ UNCHANGED notVote
    \/ VoteTick /\ UNCHANGED notVote

SpecVote == Init /\ [][VoteNext]_vars

\* The break vote under the loop's scheduling: a due timer is run, a task that
\* is ready (its send has returned) is resumed, and time passes.  Votes come
\* from two chatters, at any time or never.
LiveChatters == {"ann", "dd"}

VoteLiveNext ==
    \/ \E c \in LiveChatters : AddVote(c) /\ UNCHANGED notVote
    \/ \E c \in LiveChatters : AddVoteResume(c) /\ UNCHANGED notVote
    \/ \E c \in LiveChatters : AddVoteEndResume(c) /\ UNCHANGED notVote
    \/ WindowFire /\ UNCHANGED notVote
    \/ WindowTaskStart /\ UNCHANGED notVote
    \/ WindowTaskResume /\ UNCHANGED notVote
    \/ \E i \in 1..MaxOrphans : OrphanWindowFire(i) /\ UNCHANGED notVote
    \/ \E i \in 1..MaxOrphans : OrphanWindowTaskStart(i) /\ UNCHANGED notVote
    \/ \E i \in 1..MaxOrphans : OrphanWindowTaskResume(i) /\ UNCHANGED notVote
    \/ CooldownFire /\ UNCHANGED notVote
    \/ \E i \in 1..MaxOrphans : OrphanCooldownFire(i) /\ UNCHANGED notVote
    \/ VoteTick /\ UNCHANGED notVote

VoteFairness ==
    /\ \A c \in LiveChatters : WF_vars(AddVoteResume(c) /\ UNCHANGED notVote)
    /\ \A c \in LiveChatters : WF_vars(AddVoteEndResume(c) /\ UNCHANGED notVote)
    /\ WF_vars(WindowFire /\ UNCHANGED notVote)
    /\ WF_vars(WindowTaskStart /\ UNCHANGED notVote)
    /\ WF_vars(WindowTaskResume /\ UNCHANGED notVote)
    /\ \A i \in 1..MaxOrphans : WF_vars(OrphanWindowFire(i) /\ UNCHANGED notVote)
    /\ \A i \in 1..MaxOrphans : WF_vars(OrphanWindowTaskStart(i) /\ UNCHANGED notVote)
    /\ \A i \in 1..MaxOrphans : WF_vars(OrphanWindowTaskResume(i) /\ UNCHANGED notVote)
    /\ WF_vars(CooldownFire /\ UNCHANGED notVote)
    /\ \A i \in 1..MaxOrphans : WF_vars(OrphanCooldownFire(i) /\ UNCHANGED notVote)
    /\ WF_vars(VoteTick /\ UNCHANGED notVote)

SpecVoteLive == Init /\ [][VoteLiveNext]_vars /\ VoteFairness

\* The gamble routine and the replies of the channel's currency bot
GambleNext ==
    \/ \E n \in 0..MaxBets : StartGamble(n) /\ UNCHANGED notGamble
    \/ GambleKickoff /\ UNCHANGED notGamble
    \/ GambleOpened /\ UNCHANGED notGamble
    \/ GambleTimeout /\ UNCHANGED notGamble
    \/ GambleResend /\ UNCHANGED notGamble
    \/ GambleSent /\ UNCHANGED notGamble
    \/ GambleResult /\ UNCHANGED notGamble
    \/ \E m \in GambleMessages, answers \in BOOLEAN :
          GambleMessage(m, answers) /\ UNCHANGED notGamble
    \/ GambleDropped /\ UNCHANGED notGamble

SpecGamble == Init /\ [][GambleNext]_vars

\* The gamble routine with a responder that answers every bet command with a
\* reply parse_message turns into a result, and with fair scheduling of the
\* routine's steps.  A wait times out only while the session has bet commands
\* left within MaxSent for the re-send and for the rounds still to come.
LiveReplies ==
    { m \in GambleMessages : m.author = "StreamElements" /\ Truthy(ParseMessage(m)) }

LiveTimeout ==
    /\ gamble_hist.n_sent + gambles_remaining <= MaxSent
    /\ GambleTimeout

GambleLiveNext ==
    \/ \E n \in 0..MaxBets : StartGamble(n) /\ UNCHANGED notGamble
    \/ GambleKickoff /\ UNCHANGED notGamble
    \/ GambleOpened /\ UNCHANGED notGamble
    \/ LiveTimeout /\ UNCHANGED notGamble
    \/ GambleResend /\ UNCHANGED notGamble
    \/ GambleSent /\ UNCHANGED notGamble
    \/ GambleResult /\ UNCHANGED notGamble
    \/ \E m \in LiveReplies : GambleMessage(m, TRUE) /\ UNCHANGED notGamble

GambleFairness ==
    /\ WF_vars(GambleKickoff /\ UNCHANGED notGamble)
    /\ WF_vars(GambleOpened /\ UNCHANGED notGamble)
    /\ WF_vars(LiveTimeout /\ UNCHANGED notGamble)
    /\ WF_vars(GambleResend /\ UNCHANGED notGamble)
    /\ WF_vars(GambleSent /\ UNCHANGED notGamble)
    /\ WF_vars(GambleResult /\ UNCHANGED notGamble)
    /\ WF_vars(\E m \in LiveReplies : GambleMessage(m, TRUE) /\ UNCHANGED notGamble)

SpecGambleLive == Init /\ [][GambleLiveNext]_vars /\ GambleFairness

\* The message filter with reloads, and the handling of its results
FilterNext ==
    \/ \E cfg \in SampleConfigs, fail_at \in FailStages :
          Reload(cfg, fail_at) /\ UNCHANGED notFilter
    \/ \E m \in SampleMessages : EventMessage(m) /\ UNCHANGED notFilter
    \/ \E token \in BOOLEAN, lookups_ok \in BOOLEAN :
          EventMessageResume(token, lookups_ok) /\ UNCHANGED notFilter

FilterSpecInit == BanInit /\ VoteInit /\ GambleInit /\ FilterInit
SpecFilter == FilterSpecInit /\ [][FilterNext]_vars

\* check_message on its own, for every message and every combination of the
\* options of one configuration
EvalConfig(options) ==
    MakeConfig("eval", Tiers({"spam"}, {"free"}, {}), 5, 7, 2, 3, {"bob"}, options)
OptionSets ==
    [silent_ignore_bots : BOOLEAN, ignore_channel_staff : BOOLEAN,
     ignore_vip : BOOLEAN, ignore_subscriber : BOOLEAN, ignore_follower : BOOLEAN]
EvalCheckers ==
    { ReadConfigFile(DefaultChecker(joined), EvalConfig(options), "none") :
        joined \in {"dict", "JoinChannels"}, options \in OptionSets }
EvalMessages == { m \in Messages : ~m.cyrillic }

EvalInit ==
    /\ checker \in EvalCheckers
    /\ check_hist = CheckHistInit(TRUE)
    /\ \E m \in EvalMessages : checks = [NoCheck EXCEPT !.message = m]

\* check_message is called with the message and runs up to its first await
CheckMessageCall ==
    /\ checks.pc = "idle"
    /\ LET m    == checks.message
           head == CheckHead(checker, m) IN
       IF head.status = "returned" /\ head.result_type = "None"
       THEN /\ checks' = [checks EXCEPT
                  !.pc = "lookups", !.score = head.message_score, !.loaded = TRUE,
                  !.expect = [t \in BOOLEAN |-> CheckTail(checker, m, head.message_score, t)]]
            /\ UNCHANGED check_hist
       ELSE /\ checks' = [checks EXCEPT !.pc = "done"]
            /\ check_hist' = [check_hist EXCEPT !.result = head]
    /\ UNCHANGED <<checker, banVars>>

\* check_message resumes after the lookups and ends
CheckMessageReturn(token, lookups_ok) ==
    /\ checks.pc = "lookups"
    /\ LET m == checks.message IN
       check_hist' = [check_hist EXCEPT
          !.result = IF lookups_ok THEN CheckTail(checker, m, checks.score, token)
                     ELSE Raised("HTTPException"),
          !.tentative = IF lookups_ok /\ checker.joined_channels = "dict"
                        THEN Tentative(checker, m, checks.score, token) ELSE "None"]
    /\ checks' = [checks EXCEPT !.pc = "done"]
    /\ UNCHANGED <<checker, banVars>>

EvalNext ==
    \/ CheckMessageCall /\ UNCHANGED notFilter
    \/ \E token \in BOOLEAN, lookups_ok \in BOOLEAN :
          CheckMessageReturn(token, lookups_ok) /\ UNCHANGED notFilter

EvalSpecInit == BanInit /\ VoteInit /\ GambleInit /\ EvalInit
SpecEval == EvalSpecInit /\ [][EvalNext]_vars

(***************************************************************************)
(* Properties of the ban machinery                                         *)
(***************************************************************************)
ArmedEvents(s) ==
    {e \in 1..Len(events) : events[e].subject = s /\ events[e].ban_timer = "armed"}

\* C1: for each subject at most one grace-period ban timer is pending (armed,
\* not fired, not cancelled); a Match for a subject that already has a pending
\* action arms no second timer.
C1_OnePendingTimerPerSubject ==
    \A s \in Subjects : Cardinality(ArmedEvents(s)) <= 1

\* A Match was handled to its end for a subject whose earlier event is still
\* in ban_events: add_ban_event refused to store the new event
C1_SecondMatchHandled ==
    \E e \in 1..Len(events) : ~events[e].stored /\ events[e].handler = "done"

\* C2: once cancel() has returned without CancelError on an event whose timer
\* was armed and had not fired, the event's ban_chatter coroutine never runs
\* and no ban call is issued by it, however far time advances.
C2_CancelledNeverRuns ==
    \A e \in 1..Len(events) :
        events[e].cancel_armed =>
            /\ events[e].ban_method \notin {"scheduled", "fetch", "ban_wait", "done", "failed"}
            /\ events[e].ban_calls = 0

\* cancel() succeeded on an event whose timer was due and had not yet been run
C2_CancelledWhenDue ==
    \E e \in 1..Len(events) :
        events[e].cancel_armed /\ events[e].armed_for = MINUTES_BEFORE_BAN

\* C3: no BanEvent has both a cancel() that returned without CancelError and an
\* issued ban call: a cancel after the timer fired raises CancelError.
C3_CancelOrBanNotBoth ==
    \A e \in 1..Len(events) : ~(events[e].cancel_ok /\ events[e].ban_calls > 0)

\* ?fp reached cancel() on an event whose timer had fired
C3_CancelAfterFire ==
    \E e \in 1..Len(events) :
        events[e].cancel_ok /\ ~events[e].cancel_armed

(***************************************************************************)
(* Properties of the break vote                                            *)
(***************************************************************************)
\* The add_vote calls in flight that brought the tally to votes_required in time
BringingCalls ==
    {c \in Chatters : add_vote_calls[c].brought /\ add_vote_calls[c].pc # "idle"}

Reopens == ~vote_open /\ vote_open'

\* C4: when a vote brings the tally to votes_required before the window
\* elapses, that add_vote call announces the pass, the window-expiry handler
\* never runs for the session, and voting does not re-open before pass_timeout_s
\* has elapsed since the pass.
C4_PassInTime ==
    [][ /\ \A c \in BringingCalls :
              /\ vote_end.coro \notin {"scheduled", "end_send", "done"}
              /\ add_vote_calls[c].pc = "end_send" => add_vote_calls[c].says = "pass"
        /\ Reopens => vote_hist.since_pass \notin 0..(PassTimeout - 1) ]_vars

\* A call that brought the tally to votes_required in time is announcing the pass
C4_PassAnnounced ==
    \E c \in BringingCalls :
        add_vote_calls[c].pc = "end_send" /\ add_vote_calls[c].says = "pass"

\* C5: when the window timer fires with the tally below votes_required, its
\* handler runs, announces the fail and closes voting, and voting does not
\* re-open before fail_timeout_s has elapsed since the fail.
C5_FailAtExpiry ==
    [][ /\ (vote_end.timer = "fired" /\ vote_end.low) =>
              /\ vote_end.coro # "closed"
              /\ vote_end.coro \in {"end_send", "done"} =>
                    vote_end.says = "fail" /\ (vote_end.coro = "end_send" => ~vote_open)
        /\ Reopens => vote_hist.since_fail \notin 0..(FailTimeout - 1) ]_vars

\* The window expired below votes_required and its handler announced the fail
C5_FailAnnounced ==
    vote_end.timer = "fired" /\ vote_end.low /\ vote_end.coro = "end_send"
    /\ vote_end.says = "fail" /\ voters # {}

(***************************************************************************)
(* Properties of the gamble routine                                        *)
(***************************************************************************)
\* C6: within a session no bet command is sent while the reply to an earlier
\* bet command is still to come or lies unconsumed in result_q.
C6_OneOutstandingBet ==
    gamble_hist.n_sent >= 2 => gamble_hist.overlap = "none"

\* A bet command was sent again after a timeout
C6_ResentAfterTimeout == gamble_hist.resend.stake >= 0

\* C7: the bet command sent again after a timeout has the stake of the bet
\* command sent before it (for the opening bet: the base stake).
C7_ResendKeepsStake ==
    gamble_hist.resend.stake >= 0 => gamble_hist.resend.stake = gamble_hist.resend.previous

\* The opening bet was sent again after a timeout
C7_OpeningBetResent ==
    gamble_hist.resend.stake >= 0 /\ gamble_hist.n_sent = 2 /\ gamble_hist.rounds = 0

(***************************************************************************)
(* Properties of the message filter                                        *)
(***************************************************************************)
NoResult == Raised("none")

\* C8: an evaluation started while no configuration has been read to its end
\* returns ERROR, never MATCH, and handling that result creates no ban event.
C8_NoConfigGivesError ==
    (check_hist.result # NoResult /\ ~check_hist.loaded_at_start) =>
        /\ check_hist.result = Returned("ERROR", NoReason, 0)
        /\ ~check_hist.registry_changed

\* Such an evaluation ended after a reload that failed part of the way had
\* already replaced some of the checker's fields
C8_ErrorAfterFailedReload ==
    /\ check_hist.result = Returned("ERROR", NoReason, 0)
    /\ ~check_hist.loaded_at_start
    /\ checker.min_score # DefaultChecker("dict").min_score

\* C9: the ignore rules only turn a tentative MATCH into IGNORED; a message
\* whose tentative outcome is NO_MATCH is returned as NO_MATCH with no reason.
C9_IgnoreOnlyMatches ==
    (check_hist.result.status = "returned" /\ check_hist.tentative # "None") =>
        /\ check_hist.tentative = "NO_MATCH" =>
              /\ check_hist.result.result_type = "NO_MATCH"
              /\ check_hist.result.ignore_reason = NoReason
        /\ check_hist.result.result_type = "IGNORED" => check_hist.tentative = "MATCH"

\* An evaluation with the tentative outcome NO_MATCH returned while the
\* friendly-bot option was on
C9_NoMatchWithBotsIgnored ==
    /\ check_hist.result.status = "returned" /\ check_hist.tentative = "NO_MATCH"
    /\ checker.silent_ignore_bots

\* C10: handling a MATCH for a subject with no pending action registers the
\* subject in ban_events (and goes on to the interim timeout and the timer).
C10_MatchIsRegistered ==
    (check_hist.result.status = "returned" /\ check_hist.result.result_type = "MATCH")
        => check_hist.registry_changed

\* check_message returned MATCH and the result was handed to handle_check_result
C10_MatchHandled ==
    /\ check_hist.result.status = "returned" /\ check_hist.result.result_type = "MATCH"
    /\ hcr_outcome # "none"

C11_UnstartedCancelRaised ==
    /\ cancel_result.outcome = "CancelError"
    /\ cancel_result.event \in 1..Len(events)
    /\ events[cancel_result.event].ban_timer = "none"

\* C12: once the finalize of a registered event has finished with the ban call
\* answered by success or by "already banned", ban_events no longer holds the
\* event, so that a later MATCH for the subject can be registered
C12_FinalizedSubjectRemoved ==
    \A e \in 1..Len(events) :
        (/\ events[e].stored
         /\ events[e].ban_method = "done"
         /\ events[e].ban_result \in {"ok", "already_banned"})
        => ban_events[events[e].subject] # e

\* The finalize of a registered event has been told the subject is already banned
C12_AlreadyBannedAnswered ==
    \E e \in 1..Len(events) :
        /\ events[e].stored
        /\ events[e].ban_method = "done"
        /\ events[e].ban_result = "already_banned"

\* C13: when the finalize of a fired event runs for a subject that ban_events
\* no longer holds, it does nothing: it issues no ban call and raises no error
C13_AbsentSubjectNoOp ==
    [][\A e \in 1..Len(events) :
          (/\ events[e].ban_method = "fetch"
           /\ events'[e].ban_method # "fetch"
           /\ ban_events[events[e].subject] = 0)
          => (/\ events'[e].ban_calls = events[e].ban_calls
              /\ events'[e].ban_method # "failed")]_vars

\* The finalize of an event has passed its lookups while its subject had no
\* entry in ban_events
C13_FinalizeForAbsentSubject ==
    \E e \in 1..Len(events) :
        /\ events[e].ban_method \in {"ban_wait", "failed"}
        /\ ban_events[events[e].subject] = 0

\* C14: a ?fp command ends with the success message only after unban_chatter
\* has issued the unban call for the subject
C14_SuccessMeansUnbanned ==
    [][\A name \in Subjects :
          (/\ fp_outcome[name] = "pending"
           /\ fp_outcome'[name] \in {"success", "success_no_unban"})
          => fp_calls[name].unban_called]_vars

\* A ?fp command has reported success
C14_FpReportedSuccess ==
    \E name \in Subjects : fp_outcome[name] \in {"success", "success_no_unban"}

\* C15: an event's finalize issues at most one ban call, and after a ban call
\* that failed the event is finished: its coroutine has returned and its timer
\* is not armed again
C15_OneBanCallPerEvent ==
    \A e \in 1..Len(events) :
        /\ events[e].ban_calls <= 1
        /\ events[e].ban_result = "error"
           => (events[e].ban_method = "done" /\ events[e].ban_timer # "armed")

\* A ban call has failed
C15_BanCallFailed ==
    \E e \in 1..Len(events) :
        events[e].ban_calls = 1 /\ events[e].ban_result = "error"

(***************************************************************************)
(* Properties of the vote: cooldown, tally, session end                    *)
(***************************************************************************)
\* C16: whenever vote_open is clear there is a current cooldown timer whose
\* deadline is not in the past, so that a vote submitted then is answered with
\* the remaining cooldown; this includes the time voting_end is announcing
C16_ClosedHasCooldown ==
    ~vote_open => vote_timeout_timer.state = "armed"

\* A vote was submitted while voting was closed and no cooldown timer was
\* pending: add_vote raised, or answered from a timer that had already run
C16_VoteWithoutCooldown ==
    \E c \in Chatters :
        \/ add_vote_calls[c].pc = "raised"
        \/ add_vote_calls[c].pc = "closed_send" /\ vote_timeout_timer.state = "fired"

\* The voting_end calls suspended in their announcement, and what each says
EndsFromAddVote == {c \in Chatters : add_vote_calls[c].pc = "end_send"}
EndsFromOrphans ==
    {i \in 1..Len(vote_end_orphans) : vote_end_orphans[i].coro = "end_send"}
CooldownFor(says) == IF says = "pass" THEN PassTimeout ELSE FailTimeout

\* C17: the cooldown voting_end arms after its announcement is pass_timeout_s
\* when it announced 'Vote passed!' and fail_timeout_s when it announced
\* 'Vote failed', for the end reached from add_vote and for the window expiry
C17_CooldownMatchesOutcome ==
    [][/\ \A c \in EndsFromAddVote :
             add_vote_calls'[c].pc # "end_send"
             => vote_timeout_timer' = ArmedCooldown(CooldownFor(add_vote_calls[c].says))
       /\ (vote_end.coro = "end_send" /\ vote_end'.coro = "done")
             => vote_timeout_timer' = ArmedCooldown(CooldownFor(vote_end.says))
       /\ \A i \in EndsFromOrphans :
             Len(vote_end_orphans') < Len(vote_end_orphans)
             => vote_timeout_timer' = ArmedCooldown(CooldownFor(vote_end_orphans[i].says))
      ]_vars

\* The window expiry has announced a pass and armed its cooldown
C17_ExpiryAnnouncedPass ==
    vote_end.coro = "done" /\ vote_end.says = "pass"

\* The weight of a chatter's vote
Weight(c) == IF c \in double_names THEN 2 ELSE 1

RECURSIVE SumWeights(_)
SumWeights(S) ==
    IF S = {} THEN 0
    ELSE LET c == CHOOSE x \in S : TRUE IN Weight(c) + SumWeights(S \ {c})

\* C18: while voting is open the tally is the number of chatters who voted,
\* those of double_names counted twice; and an add_vote call by a chatter who
\* has voted already changes neither the tally nor the window timer
C18_TallyIsWeightedVoters ==
    [][/\ vote_open' => Cardinality(voters') = SumWeights(vote_hist'.voted)
       /\ \A c \in vote_hist.voted :
             (/\ vote_open
              /\ add_vote_calls[c].pc \in {"idle", "raised"}
              /\ add_vote_calls'[c] # add_vote_calls[c])
             => (voters' = voters /\ vote_end' = vote_end)
      ]_vars

\* Two chatters have voted in an open round, one of them with a double vote
C18_DoubleVoteCounted ==
    /\ vote_open
    /\ Cardinality(vote_hist.voted) >= 2
    /\ vote_hist.voted \cap double_names # {}

\* The cooldown timers pending, and the voting_end calls in progress
PendingCooldowns ==
    (IF vote_timeout_timer.state = "armed" THEN 1 ELSE 0) + Len(vote_timeout_orphans)
RunningEnds ==
    Cardinality(EndsFromAddVote) + Cardinality(EndsFromOrphans)
        + (IF vote_end.coro = "end_send" THEN 1 ELSE 0)

\* C19: a session ends once: at no time are two voting_end calls in progress,
\* and at no time are two cooldown timers pending
C19_SessionEndsOnce ==
    PendingCooldowns <= 1 /\ RunningEnds <= 1

\* A session has ended and its cooldown is pending
C19_SessionEnded ==
    ~vote_open /\ PendingCooldowns >= 1

\* C20: the voter set changes only by an add_vote call adding to it while
\* vote_open is set and by the clearing that re-opens voting; an add_vote call
\* made while vote_open is clear changes neither the voter set nor the window
\* timer and coroutine
C20_ClosedVoteNotCounted ==
    [][/\ voters' # voters
          => \/ vote_open /\ voters \subseteq voters'
             \/ voters' = {} /\ vote_open'
       /\ \A c \in Chatters :
             (/\ ~vote_open
              /\ add_vote_calls[c].pc \in {"idle", "raised"}
              /\ add_vote_calls'[c] # add_vote_calls[c])
             => (/\ voters' = voters
                 /\ vote_end' = vote_end
                 /\ vote_end_orphans' = vote_end_orphans)
      ]_vars

\* A vote submitted while voting was closed is being answered, votes of the
\* ended round still in the voter set
C20_ClosedVoteAnswered ==
    /\ ~vote_open
    /\ voters # {}
    /\ \E c \in Chatters : add_vote_calls[c].pc = "closed_send"

\* With due timers run and ready tasks resumed, voting that is closed becomes
\* open again
ClosedLeadsToOpen == ~vote_open ~> vote_open

\* At the moment voting becomes open the voter set is empty and no window
\* timer is armed
ReopensClean ==
    [][Reopens => (/\ voters' = {}
                   /\ vote_end'.timer # "armed"
                   /\ \A i \in 1..Len(vote_end_orphans') :
                         vote_end_orphans'[i].timer # "armed")]_vars

\* C21: under fair timers and tasks, every time voting becomes closed it
\* eventually becomes open again, and at that moment the voter set is empty
\* and no window timer is armed
C21_ClosedReopensClean == ClosedLeadsToOpen /\ ReopensClean

\* Voting has been closed and is open again, its cooldown timer run
C21_Reopened ==
    vote_open /\ vote_timeout_timer.state = "fired"

(***************************************************************************)
(* Properties of the gamble routine: results and counters                  *)
(***************************************************************************)
\* The routine takes a result out of the queue in this step
Consumes == gamble_pc = "wait" /\ result_q # <<>> /\ result_q' = Tail(result_q)
Consumed == Head(result_q).value

\* base x MAX_LOSS_FACTOR
LossLimit == gamble_base * MAX_LOSS_FACTOR

\* C22: a Loss of more than base x MAX_LOSS_FACTOR consumed while bets remain
\* stops the session, with no bet sent for it; a Loss of exactly
\* base x MAX_LOSS_FACTOR does not: the next bet is sent
C22_MassiveLossStops ==
    [][(Consumes /\ gambles_remaining > 1 /\ Consumed # OutOfFunds)
       => /\ Consumed < 0 - LossLimit
             => (/\ gambles_remaining' = 0
                 /\ gamble_pc' = "done"
                 /\ gamble_hist'.n_sent = gamble_hist.n_sent)
          /\ Consumed = 0 - LossLimit
             => (/\ gambles_remaining' = gambles_remaining - 1
                 /\ gamble_pc' = "send_next")]_vars

\* A session of two bets has been stopped by its first result, a Loss above
\* the limit
C22_StoppedByMassiveLoss ==
    /\ gamble_pc = "done"
    /\ gamble_hist.n_bets = 2 /\ gamble_hist.rounds = 1
    /\ gambles_remaining = 0
    /\ winnings < 0 - LossLimit

\* C23: an out-of-funds result consumed by the routine sets the counter to 0
\* whatever it was, leaves the running total as it is and ends the routine
\* without another bet
C23_OutOfFundsStops ==
    [][(Consumes /\ Consumed = OutOfFunds)
       => (/\ gambles_remaining' = 0
           /\ winnings' = winnings
           /\ gamble_hist'.n_sent = gamble_hist.n_sent
           /\ gamble_pc' = "done")]_vars

\* A session of two bets has ended with no round resolved: its first result
\* was the out-of-funds one
C23_StoppedByOutOfFunds ==
    /\ gamble_pc = "done"
    /\ gamble_hist.n_bets = 2 /\ gamble_hist.rounds = 0
    /\ gambles_remaining = 0

\* C24: after a Loss of magnitude m <= base x MAX_LOSS_FACTOR consumed while
\* bets remain, the next bet is sent with the stake 2 x m
C24_LossDoublesStake ==
    [][(/\ Consumes /\ gambles_remaining > 1
        /\ Consumed < 0 /\ Consumed >= 0 - LossLimit)
       => (/\ gamble_pc' = "send_next"
           /\ bet' = 2 * (0 - Consumed)
           /\ gamble_hist'.last_sent = 2 * (0 - Consumed)
           /\ gamble_hist'.n_sent = gamble_hist.n_sent + 1)]_vars

\* The bet after a Loss of exactly base x MAX_LOSS_FACTOR is being sent
C24_DoubledBetSent ==
    gamble_pc = "send_next" /\ gamble_hist.last_sent = 2 * LossLimit

\* C25: a Win of amount a adds a to the running total, and when bets remain
\* the next bet is sent with the base stake; every Loss is added with its
\* sign, and the total starts at 0, so that the total reported at the end is
\* the wins minus the losses consumed in the session
C25_WinAddsAndResets ==
    [][/\ (Consumes /\ Consumed > 0)
          => (/\ winnings' = winnings + Consumed
              /\ gambles_remaining > 1
                 => (/\ gamble_pc' = "send_next"
                     /\ bet' = gamble_base
                     /\ gamble_hist'.last_sent = gamble_base))
       /\ (Consumes /\ Consumed < 0 /\ Consumed # OutOfFunds)
          => winnings' = winnings + Consumed
       /\ (gamble_pc = "created" /\ gamble_pc' # "created") => winnings' = 0
       /\ (~Consumes /\ gamble_pc # "created") => winnings' = winnings]_vars

\* The bet after a Win is being sent, the bet before it was a re-send with
\* another stake than the base
C25_BaseBetAfterWin ==
    /\ gamble_pc = "send_next"
    /\ winnings > 0
    /\ gamble_hist.last_sent = gamble_base
    /\ gamble_hist.resend.stake \notin {-1, gamble_base}

\* C26: in a session started with n_bets = N the counter goes down by one for
\* every Win/Loss round below the loss limit, at most N rounds are resolved,
\* and a bet that is not a re-send is sent only while fewer than N bets have
\* been resolved or are under way: the opening bet needs N >= 1, the bet after
\* the k-th round needs k + 1 <= N
C26_AtMostNBets ==
    [][/\ (Consumes /\ Consumed # OutOfFunds /\ Consumed >= 0 - LossLimit)
          => gambles_remaining' = gambles_remaining - 1
       /\ gamble_hist'.rounds <= gamble_hist'.n_bets
       /\ (gamble_pc = "created" /\ gamble_pc' = "send_open")
          => gamble_hist.n_bets >= 1
       /\ (gamble_pc = "wait" /\ gamble_pc' = "send_next")
          => gamble_hist'.rounds + 1 <= gamble_hist.n_bets]_vars

\* A session started with no bets to place has ended
C26_SessionOfNoBets ==
    gamble_pc = "done" /\ gamble_hist.sessions >= 1 /\ gamble_hist.n_bets = 0

\* C27: a message is put on the result queue only if the responder wrote it,
\* and the step that handles a message changes neither the counter nor the
\* running total nor the stake
C27_OnlyResponderCounts ==
    [][Len(result_q') > Len(result_q)
       => (/\ result_q'[Len(result_q')].author = "StreamElements"
           /\ gambles_remaining' = gambles_remaining
           /\ winnings' = winnings
           /\ bet' = bet)]_vars

\* A message of another author was handled while the routine was waiting for
\* a result, and the queue is empty
C27_ForeignMessageIgnored ==
    /\ gamble_hist.foreign
    /\ gamble_pc = "wait"
    /\ gambles_remaining > 0
    /\ result_q = <<>>

(***************************************************************************)
(* Properties of the message filter: reloads and tier scores               *)
(***************************************************************************)
\* check_message resumes and ends in this step
EvaluationResumes == checks.pc = "lookups" /\ checks'.pc = "idle"

\* C28: an evaluation that was suspended in its lookups ends with the result
\* the checker's fields of the moment it started give (for the token found,
\* or with the lookup's own error), whatever was reloaded in between
C28_OneSnapshotPerEvaluation ==
    [][EvaluationResumes
       => \/ check_hist'.result = Raised("HTTPException")
          \/ \E token \in BOOLEAN : check_hist'.result = checks.expect[token]]_vars

\* An evaluation is suspended and the checker's fields no longer give what
\* they gave when it started
C28_ReloadedWhileSuspended ==
    /\ checks.pc = "lookups"
    /\ \E token \in BOOLEAN :
          CheckTail(checker, checks.message, checks.score, token) # checks.expect[token]

\* The configuration file of a given name
ConfigNamed(name) == CHOOSE cfg \in SampleConfigs : cfg.name = name

\* C29: after a ?reload that read its file to the end, the tiers of the
\* checker are exactly the non-empty tiers of that file: a tier the file does
\* not have, or has with an empty list, has no pattern any more
C29_ReloadReplacesTiers ==
    check_hist.reloaded # "none"
    => \A t \in TierKeys :
          checker.flagged_re[t] = ConfigNamed(check_hist.reloaded).flaggedTiers[t]

\* A ?reload has read a file in which a tier the checker had is empty
C29_ReloadedWithFewerTiers ==
    /\ check_hist.reloaded # "none"
    /\ \E t \in TierKeys :
          /\ ConfigNamed(check_hist.reloaded).flaggedTiers[t] = {}
          /\ checker.flagged_re[t] # {}

\* The phrases of a tier that occur in a message, whatever their letter case
DistinctPhrases(phrases, content) ==
    { content[i].phrase : i \in { j \in 1..Len(content) : content[j].phrase \in phrases } }

RECURSIVE SumDistinct(_, _, _)
SumDistinct(tiers, flagged_re, content) ==
    IF tiers = {} THEN 0
    ELSE LET t == CHOOSE k \in tiers : TRUE IN
         TierWeight(t) * Cardinality(DistinctPhrases(flagged_re[t], content))
           + SumDistinct(tiers \ {t}, flagged_re, content)

\* C30: the score of the tier loop is, summed over the tiers, the tier's
\* weight times the number of its phrases that occur in the message, a phrase
\* counted once however often and in whatever letter case it occurs
C30_DistinctPhrasesCounted ==
    [][(checks.pc = "idle" /\ checks'.pc = "lookups")
       => checks'.score = SumDistinct(LoadedTierKeys(checker), checker.flagged_re,
                                      checks'.message.content)]_vars

\* A message that has a phrase of a loaded tier twice, in two letter cases,
\* has been scored
C30_MixedCaseScored ==
    /\ checks.pc = "lookups"
    /\ checks.score > 0
    /\ \E i, j \in 1..Len(checks.message.content) :
          /\ checks.message.content[i].phrase = checks.message.content[j].phrase
          /\ checks.message.content[i].upper # checks.message.content[j].upper

(***************************************************************************)
(* Properties of check_message over all messages and options               *)
(***************************************************************************)
\* The ignore rules in the order of the claim, and when each applies
RuleOrder == <<"FRIENDLY_BOT", "CHANNEL_STAFF", "VIP", "SUBSCRIBER", "FOLLOWER">>
RuleApplies(ch, m, rule) ==
    CASE rule = "FRIENDLY_BOT"  -> ch.silent_ignore_bots /\ m.author \in ch.bot_names
      [] rule = "CHANNEL_STAFF" -> ch.ignore_channel_staff /\ m.is_staff
      [] rule = "VIP"           -> ch.ignore_vip /\ m.vip
      [] rule = "SUBSCRIBER"    -> ch.ignore_subscriber /\ m.is_subscriber
      [] OTHER                  -> ch.ignore_follower /\ m.follow_days >= 0
ApplicableRules(ch, m) == { i \in 1..Len(RuleOrder) : RuleApplies(ch, m, RuleOrder[i]) }
FirstRule(ch, m) ==
    RuleOrder[CHOOSE i \in ApplicableRules(ch, m) : \A j \in ApplicableRules(ch, m) : i <= j]

\* The evaluation of checks.message has returned a result
EvaluationReturned == checks.pc = "done" /\ check_hist.result.status = "returned"

\* C31: a matching message to which several ignore rules apply is returned as
\* IGNORED with the first of them, in the order friendly bot, channel staff,
\* VIP, subscriber, follower, as its reason; so a matching message of a
\* friendly bot who is channel staff has the reason FRIENDLY_BOT
C31_FirstIgnoreRuleRecorded ==
    (/\ EvaluationReturned
     /\ check_hist.tentative = "MATCH"
     /\ Cardinality(ApplicableRules(checker, checks.message)) >= 2)
    => /\ check_hist.result.result_type = "IGNORED"
       /\ check_hist.result.ignore_reason = FirstRule(checker, checks.message)

\* A matching message of a friendly bot who is channel staff, both options
\* on, has been evaluated
C31_StaffBotEvaluated ==
    /\ EvaluationReturned
    /\ check_hist.tentative = "MATCH"
    /\ RuleApplies(checker, checks.message, "FRIENDLY_BOT")
    /\ RuleApplies(checker, checks.message, "CHANNEL_STAFF")

\* The score after the multipliers when the follow-time multiplier is applied
\* once to an author who does not follow, or follows for at most the cutoff
FollowMultiplied(ch, m, score) ==
    LET s1 == IF m.follow_days < 0 \/ m.follow_days <= ch.follow_time_days_cutoff
              THEN score * ch.follow_time_multiplier ELSE score
    IN  IF m.first THEN s1 * ch.first_time_chatter_multiplier ELSE s1

\* C32: the score of every evaluated message has the follow-time multiplier
\* in it once when the author does not follow the channel or follows it for at
\* most follow_time_days_cutoff days, and not at all otherwise
C32_FollowMultiplierOnce ==
    EvaluationReturned
    => check_hist.result.message_score
         = FollowMultiplied(checker, checks.message, checks.score)

\* A message with a tier score of an author who does not follow has been
\* evaluated
C32_NonFollowerEvaluated ==
    /\ EvaluationReturned
    /\ checks.score > 0
    /\ checks.message.follow_days < 0

\* C33: a configuration with a tier key that is no base-10 integer never
\* becomes the checker's configuration: no pattern is loaded under such a key,
\* and no evaluation ends with the ValueError of int(tier)
C33_BadTierKeyRejected ==
    /\ \A t \in LoadedTierKeys(checker) : TierWeight(t) >= 0
    /\ check_hist.result # Raised("ValueError")

\* A ?reload has read to its end a file with a tier key that is no integer
C33_BadTierKeyRead ==
    /\ check_hist.reloaded # "none"
    /\ \E t \in TierKeys :
          /\ TierWeight(t) < 0
          /\ ConfigNamed(check_hist.reloaded).flaggedTiers[t] # {}

\* C39: with a loaded configuration every evaluation whose lookups succeed
\* returns MATCH, NO_MATCH or IGNORED, with an ignore reason exactly when it
\* is IGNORED, whatever the options and whether or not a token is stored
C39_AlwaysAnOutcome ==
    (checks.pc = "done" /\ check_hist.result # Raised("HTTPException"))
    => /\ check_hist.result.status = "returned"
       /\ check_hist.result.result_type \in {"MATCH", "NO_MATCH", "IGNORED"}
       /\ check_hist.result.ignore_reason # NoReason
            <=> check_hist.result.result_type = "IGNORED"

\* An evaluation has ended, with no token stored for the channel, under a
\* checker that has the follower option on
C39_EvaluatedWithoutToken ==
    /\ checks.pc = "done"
    /\ checker.ignore_follower /\ checker.joined_channels = "dict"
    /\ check_hist.result = checks.expect[FALSE]
    /\ check_hist.result # checks.expect[TRUE]

(***************************************************************************)
(* Properties of the ban machinery: cancellations and decisions            *)
(***************************************************************************)
\* C34: once ?fp has reported the cancellation for a subject, no ban call is
\* issued by an event of that subject that was created before the cancel,
\* however many times the subject had been flagged
C34_NoBanAfterReportedCancel ==
    [][\A e \in 1..Len(events) :
          events'[e].ban_calls > events[e].ban_calls
          => events[e].pardoned # "reported"]_vars

\* ?fp has reported success for a subject that had been flagged twice before
\* the cancel: one event was canceled, the other was not in ban_events
C34_CancelReportedAfterTwoMatches ==
    \E e \in 1..Len(events) :
        /\ events[e].pardoned = "reported"
        /\ ~events[e].stored

\* The decisions other than MATCH, and the IGNORED decisions of friendly bots
NonMatchResults    == { cr \in CheckResults : cr.result_type # "MATCH" }
FriendlyBotResults ==
    [subject : Subjects, result_type : {"IGNORED"}, ignore_reason : {"FRIENDLY_BOT"},
     message_score : {NearMissScore}, has_multipliers : BOOLEAN]

\* C35: handling a decision that is not MATCH adds no entry to ban_events and
\* creates no ban event (so issues no timeout and arms no timer): a step that
\* changes either is the handling of no such decision.  Handling an IGNORED
\* decision of a friendly bot sends no chat message either: it ends with
\* nothing done.
C35_OnlyMatchPunishes ==
    [][/\ (ban_events' # ban_events \/ events' # events)
          => \A cr \in NonMatchResults : ~HandleCheckResult(cr)
       /\ hcr_outcome' # "nothing"
          => \A cr \in FriendlyBotResults : ~HandleCheckResult(cr)]_vars

\* An IGNORED decision has been handled and its pass message sent, while a
\* ban event of an earlier MATCH is pending
C35_IgnoredHandledWhilePending ==
    /\ hcr_outcome = "pass_message"
    /\ \E e \in 1..Len(events) : events[e].ban_timer = "armed"

(***************************************************************************)
(* Properties of the break vote: one session at a time                     *)
(***************************************************************************)
\* The window timers that are armed, the Voter's own and those it no longer
\* references
ArmedWindowTimers ==
    (IF vote_end.timer = "armed" THEN 1 ELSE 0)
      + Cardinality({ i \in 1..Len(vote_end_orphans) : vote_end_orphans[i].timer = "armed" })

\* C36: while voting is open and a vote has been cast the voter set only
\* grows (voting_enable does not clear it before the session has ended), and
\* at most one window timer is armed at any time
C36_VotersOnlyGrowInSession ==
    [][/\ (vote_open /\ voters # {}) => voters \subseteq voters'
       /\ ArmedWindowTimers' <= 1]_vars

\* A session is open with a vote cast while a cooldown timer is still pending
C36_OpenSessionWithPendingCooldown ==
    /\ vote_open /\ voters # {}
    /\ \/ vote_timeout_timer.state = "armed"
       \/ vote_timeout_orphans # <<>>

(***************************************************************************)
(* Properties of the gamble routine: the end of a session and the next one *)
(***************************************************************************)
\* C38: result_q is empty whenever start_gamble starts a session, so no
\* session consumes a result that was put on the queue during an earlier one
C38_QueueEmptyAtStart == ~gamble_hist.stale_at_start

\* A second session has consumed a result as a round
C38_LaterSessionConsumed ==
    /\ gamble_hist.sessions = 2
    /\ gamble_hist.rounds > 0

\* A started routine comes to its end
RoutineTerminates == (gamble_pc = "created") ~> (gamble_pc = "done")
\* ... after at most n_bets results consumed as rounds
RoundsWithinBets == gamble_hist.rounds <= gamble_hist.n_bets
\* A bet command is sent only while the counter is above 0
NoBetAtZero ==
    [][gamble_hist'.n_sent > gamble_hist.n_sent => gambles_remaining' > 0]_vars

\* C37: with a responder that answers every bet command and fair scheduling,
\* a started gamble_routine ends, it resolves at most n_bets rounds, and it
\* sends no bet command while the counter of remaining bets is 0
C37_TerminatesWithinBets ==
    RoutineTerminates /\ []RoundsWithinBets /\ NoBetAtZero

\* A session of two bets has ended after two rounds
C37_TwoRoundsDone ==
    /\ gamble_pc = "done"
    /\ gamble_hist.n_bets = 2
    /\ gamble_hist.rounds = 2

====
